---- MODULE Spec2Model ----
(***************************************************************************)
(* Conversation state tracking of the Messenger bots of this repository:   *)
(*   - the emergency bot (src/unnamed/part_001): userState, handleMessage, *)
(*     handlePostback, cleanupOldStates;                                   *)
(*   - the pet-report bot (src/server/src/server.ts): userSessions,        *)
(*     handleQuickReply, handleUserMessage, handleAttachment, the hourly   *)
(*     cleanup.                                                            *)
(* The two bots are separate programs: Init chooses which one runs (bot).  *)
(* Texts are sequences of one-character strings, so that trim, case        *)
(* folding, includes, parseInt and the regular expressions are computed.   *)
(***************************************************************************)
EXTENDS Integers, Sequences, FiniteSets, TLC

VARIABLES bot, now, ticks, userState, userSessions, outbox, finalized, cleaned, inflight, base

vars == <<bot, now, ticks, userState, userSessions, outbox, finalized, cleaned, inflight, base>>

\* ---------------------------------------------------------------- bounds
\* Number of clock advances in one behaviour.
MaxTicks == 2
\* Cap on the image URLs collected for one pet (the code has none).
MaxImages == 1
\* Cap on the pets saved in one session (the code has none).
MaxPets == 1

\* ------------------------------------------------------ program constants
STATE_TIMEOUT_MS == 3600000
PET_SESSION_MAX_AGE_MS == 3600000

\* An optional value (a property that may be undefined) is a sequence of
\* length 0 or 1.
Undefined == <<>>

Some(x) == <<x>>

IsSome(o) == o # <<>>

Val(o) == o[1]

\* ------------------------------------------------------------------ text
UpperLetters ==
  <<"A","B","C","D","E","F","G","H","I","J","K","L","M",
    "N","O","P","Q","R","S","T","U","V","W","X","Y","Z">>

LowerLetters ==
  <<"a","b","c","d","e","f","g","h","i","j","k","l","m",
    "n","o","p","q","r","s","t","u","v","w","x","y","z">>

Digits == <<"0","1","2","3","4","5","6","7","8","9">>

IndexIn(c, seq) ==
  IF \E i \in 1..Len(seq) : seq[i] = c
  THEN CHOOSE i \in 1..Len(seq) : seq[i] = c
  ELSE 0

DigitSet == {Digits[i] : i \in 1..Len(Digits)}

IsDigit(c) == c \in DigitSet

DigitVal(c) == IndexIn(c, Digits) - 1

IsSpace(c) == c \in {" ", "\t", "\n"}

\* The case mappings of the letters, as tables.
LowerOf == [c \in {UpperLetters[i] : i \in 1..26} |-> LowerLetters[IndexIn(c, UpperLetters)]]

UpperOf == [c \in {LowerLetters[i] : i \in 1..26} |-> UpperLetters[IndexIn(c, LowerLetters)]]

LowerChar(c) == IF c \in DOMAIN LowerOf THEN LowerOf[c] ELSE c

UpperChar(c) == IF c \in DOMAIN UpperOf THEN UpperOf[c] ELSE c

\* String.prototype.toLowerCase / toUpperCase
ToLowerCase(t) == [i \in 1..Len(t) |-> LowerChar(t[i])]

ToUpperCase(t) == [i \in 1..Len(t) |-> UpperChar(t[i])]

\* String.prototype.trim
Trim(t) ==
  IF \A i \in 1..Len(t) : IsSpace(t[i]) THEN <<>>
  ELSE LET lo == CHOOSE i \in 1..Len(t) :
                   ~IsSpace(t[i]) /\ \A j \in 1..(i-1) : IsSpace(t[j])
           hi == CHOOSE i \in 1..Len(t) :
                   ~IsSpace(t[i]) /\ \A j \in (i+1)..Len(t) : IsSpace(t[j])
       IN  SubSeq(t, lo, hi)

\* String.prototype.includes
Includes(t, sub) ==
  \E i \in 1..(Len(t) - Len(sub) + 1) : SubSeq(t, i, i + Len(sub) - 1) = sub

\* t.replace(/ /g, "") and t.replace(/[\s-]/g, "")
RemoveSpaces(t) == SelectSeq(t, LAMBDA c : c # " ")

RemoveSpacesAndDashes(t) == SelectSeq(t, LAMBDA c : ~IsSpace(c) /\ c # "-")

\* Length of the longest prefix of t made of decimal digits.
RECURSIVE DigitPrefixLen(_)
DigitPrefixLen(t) ==
  IF t = <<>> \/ ~IsDigit(Head(t)) THEN 0 ELSE 1 + DigitPrefixLen(Tail(t))

RECURSIVE DecimalValue(_)
DecimalValue(t) ==
  IF t = <<>> THEN 0 ELSE 10 * DecimalValue(SubSeq(t, 1, Len(t) - 1)) + DigitVal(t[Len(t)])

HexDigits == <<"0","1","2","3","4","5","6","7","8","9","a","b","c","d","e","f">>

IsHexDigit(c) == IndexIn(LowerChar(c), HexDigits) # 0

RECURSIVE HexPrefixLen(_)
HexPrefixLen(t) ==
  IF t = <<>> \/ ~IsHexDigit(Head(t)) THEN 0 ELSE 1 + HexPrefixLen(Tail(t))

RECURSIVE HexValue(_)
HexValue(t) ==
  IF t = <<>> THEN 0
  ELSE 16 * HexValue(SubSeq(t, 1, Len(t) - 1)) + (IndexIn(LowerChar(t[Len(t)]), HexDigits) - 1)

\* parseInt(text) with no radix: leading white space, an optional sign, a 0x
\* prefix selecting base 16, then the longest run of digits. The result is
\* optional: Undefined stands for NaN.
ParseDecimal(body) ==
  IF DigitPrefixLen(body) = 0 THEN Undefined
  ELSE Some(DecimalValue(SubSeq(body, 1, DigitPrefixLen(body))))

ParseHex(hb) ==
  IF HexPrefixLen(hb) = 0 THEN Undefined
  ELSE Some(HexValue(SubSeq(hb, 1, HexPrefixLen(hb))))

ParseMagnitude(body) ==
  IF Len(body) >= 2 /\ body[1] = "0" /\ body[2] \in {"x", "X"}
  THEN ParseHex(SubSeq(body, 3, Len(body)))
  ELSE ParseDecimal(body)

Negated(o) == IF IsSome(o) THEN Some(0 - Val(o)) ELSE Undefined

ParseSigned(t) ==
  IF t # <<>> /\ Head(t) = "-" THEN Negated(ParseMagnitude(Tail(t)))
  ELSE IF t # <<>> /\ Head(t) = "+" THEN ParseMagnitude(Tail(t))
  ELSE ParseMagnitude(t)

ParseInt(text) == ParseSigned(Trim(text))

\* Number to string conversion of a template literal, for integers.
RECURSIVE NatToString(_)
NatToString(n) ==
  IF n < 10 THEN <<Digits[n + 1]>> ELSE NatToString(n \div 10) \o <<Digits[(n % 10) + 1]>>

NumberToString(n) == IF n < 0 THEN <<"-">> \o NatToString(0 - n) ELSE NatToString(n)

\* ---------------------------------------------------------- map helpers
\* A store (a JavaScript object used as a map, or a Map) is a function whose
\* domain is the set of keys present.
Has(store, k) == k \in DOMAIN store

Put(store, k, v) == [x \in (DOMAIN store) \cup {k} |-> IF x = k THEN v ELSE store[x]]

Remove(store, k) == [x \in (DOMAIN store) \ {k} |-> store[x]]

\* { ...old, ...upd } for records that carry every property (unset ones Undefined).
Spread(old, upd) == [f \in DOMAIN old |-> IF f \in DOMAIN upd THEN upd[f] ELSE old[f]]

\* Array.prototype.includes
Contains(seq, x) == \E i \in 1..Len(seq) : seq[i] = x

\* ======================================================= emergency bot
\* Texts the emergency bot compares against.
KwHelp == <<"h","e","l","p">>

KwSos == <<"s","o","s">>

KwEmergency == <<"e","m","e","r","g","e","n","c","y">>

KwStart == <<"s","t","a","r","t">>

KwCancel == <<"c","a","n","c","e","l">>

KwReset == <<"r","e","s","e","t">>

KwYes == <<"y","e","s">>

KwSkip == <<"s","k","i","p">>

validTypes ==
  << <<"F","O","O","D">>, <<"W","A","T","E","R">>, <<"M","E","D","I","C","A","L">>,
     <<"S","H","E","L","T","E","R">>, <<"C","L","O","T","H","I","N","G">>,
     <<"O","T","H","E","R">> >>

levels ==
  << <<"L","O","W">>, <<"M","E","D","I","U","M">>, <<"H","I","G","H">>,
     <<"C","R","I","T","I","C","A","L">> >>

EStates ==
  {"start", "awaiting_assistance_type", "awaiting_more_assistance",
   "awaiting_contact_name", "awaiting_contact_number", "awaiting_number_of_people",
   "awaiting_urgency_level", "awaiting_location", "awaiting_verification_doc",
   "awaiting_additional_info"}

\* emergencyData of a new UserState: { timestamp: Date.now(), requiredAssistance: [] }
NewEmergencyData(t) ==
  [location |-> Undefined, locationCoords |-> Undefined, contactName |-> Undefined,
   contactNumber |-> Undefined, requiredAssistance |-> <<>>, numberOfPeople |-> Undefined,
   urgencyLevel |-> Undefined, verificationDoc |-> Undefined, additionalInfo |-> Undefined,
   timestamp |-> t]

\* A variant of setState that puts every new session at "start".
setStateNewAtStart(us, senderId, state, t) ==
  IF ~Has(us, senderId)
  THEN Put(us, senderId, [state |-> "start", emergencyData |-> NewEmergencyData(t), timestamp |-> t])
  ELSE Put(us, senderId, [us[senderId] EXCEPT !.state = state, !.timestamp = t])

setState(us, senderId, state, t) ==
  IF ~Has(us, senderId)
  THEN Put(us, senderId, [state |-> state, emergencyData |-> NewEmergencyData(t), timestamp |-> t])
  ELSE Put(us, senderId, [us[senderId] EXCEPT !.state = state, !.timestamp = t])

\* A variant of clearState that empties the store.
clearStateAll(us, senderId) == <<>>

\* A variant of clearState that leaves the entry in the store.
clearStateKeeping(us, senderId) == us

clearState(us, senderId) == Remove(us, senderId)

updateEmergencyData(us, senderId, data) ==
  IF Has(us, senderId)
  THEN Put(us, senderId,
           [us[senderId] EXCEPT !.emergencyData = Spread(us[senderId].emergencyData, data)])
  ELSE us

\* A variant of addAssistanceType that pushes the type whether or not the list
\* already includes it.
addAssistanceTypeAgain(us, senderId, type) ==
  IF Has(us, senderId)
  THEN Put(us, senderId,
           [us[senderId] EXCEPT !.emergencyData.requiredAssistance = Append(@, type)])
  ELSE us

addAssistanceType(us, senderId, type) ==
  IF Has(us, senderId)
  THEN LET current == us[senderId].emergencyData.requiredAssistance
       IN  IF ~Contains(current, type)
           THEN Put(us, senderId,
                    [us[senderId] EXCEPT !.emergencyData.requiredAssistance = Append(current, type)])
           ELSE us
  ELSE us

\* A variant of IsExpired that expires a session at the timeout itself.
IsExpiredAtTimeout(session, t) == t - session.timestamp >= STATE_TIMEOUT_MS

\* now - userState[userId].timestamp > STATE_TIMEOUT_MS
IsExpired(session, t) == t - session.timestamp > STATE_TIMEOUT_MS

\* The forEach of cleanupOldStates over Object.keys(userState).
RECURSIVE CleanupLoop(_, _, _)
CleanupLoop(us, keys, t) ==
  IF keys = {} THEN us
  ELSE LET userId == CHOOSE k \in keys : TRUE
       IN  CleanupLoop(IF IsExpired(us[userId], t)
                       THEN Remove(us, userId)
                       ELSE us,
                       keys \ {userId}, t)

\* A variant of cleanupOldStates that deletes nothing.
cleanupOldStatesNothing(us, t) == us

cleanupOldStates(us, t) == CleanupLoop(us, DOMAIN us, t)

\* text.toLowerCase().includes("help") || ... "sos" || "emergency" || "start"
IsStartCommand(text) ==
  LET l == ToLowerCase(text)
  IN  Includes(l, KwHelp) \/ Includes(l, KwSos) \/ Includes(l, KwEmergency) \/ Includes(l, KwStart)

\* text.toLowerCase().includes("cancel") || ... "reset"
IsCancelCommand(text) ==
  LET l == ToLowerCase(text)
  IN  Includes(l, KwCancel) \/ Includes(l, KwReset)

\* validTypes.includes(payload || "") ? payload : validTypes.includes(cleanText) ? cleanText : null
SelectedType(text, quickReplyPayload) ==
  LET cleanText == ToUpperCase(text)
      payload   == IF IsSome(quickReplyPayload) THEN ToUpperCase(Val(quickReplyPayload)) ELSE <<>>
  IN  IF Contains(validTypes, payload) THEN Some(payload)
      ELSE IF Contains(validTypes, cleanText) THEN Some(cleanText)
      ELSE Undefined

\* selectedType.charAt(0) + selectedType.slice(1).toLowerCase()
Capitalize(t) == <<t[1]>> \o ToLowerCase(SubSeq(t, 2, Len(t)))

ValidContactName(text) == Len(text) >= 2

\* /^\+?\d{7,15}$/.test(text.replace(/ /g, ""))
ValidContactNumber(text) ==
  LET t == RemoveSpaces(text)
      d == IF t # <<>> /\ Head(t) = "+" THEN Tail(t) ELSE t
  IN  /\ Len(d) >= 7
      /\ Len(d) <= 15
      /\ \A i \in 1..Len(d) : IsDigit(d[i])

\* !isNaN(num) && num > 0, num = parseInt(text)
ValidNumberOfPeople(text) == IsSome(ParseInt(text)) /\ Val(ParseInt(text)) > 0

ValidUrgencyLevel(text) == Contains(levels, ToUpperCase(text))

\* What one handler run produced: the store, the messages handed to callSendAPI,
\* the requests logged by finalizeEmergencyRequest, and whether it threw.
Result(us, msgs, fin) == [us |-> us, msgs |-> msgs, fin |-> fin, threw |-> FALSE]

Thrown(us) == [us |-> us, msgs |-> <<>>, fin |-> <<>>, threw |-> TRUE]

\* const data = getState(senderId)?.emergencyData; if (!data) return; console.log(...)
finalizeEmergencyRequest(us, senderId) ==
  IF Has(us, senderId) THEN <<us[senderId].emergencyData>> ELSE <<>>

\* The attachment branch of handleMessage for a location (attachments[0]).
HandleLocationAttachment(us, senderId, attachment, t) ==
  IF ~IsSome(attachment.coordinates)
  THEN Thrown(us)
  ELSE LET loc == Val(attachment.coordinates)
           u1  == updateEmergencyData(us, senderId,
                    [locationCoords |-> Some(loc),
                     location |-> Some(NumberToString(loc.lat) \o <<",", " ">>
                                       \o NumberToString(loc.long))])
           u2  == setState(u1, senderId, "awaiting_verification_doc", t)
       IN  Result(u2, <<"LOCATION_RECEIVED_ASK_VERIFICATION_DOC">>, <<>>)

\* A variant of HandleImageAttachment that takes the image at every step.
HandleImageAttachmentAnyStep(us, senderId, attachment, t) ==
  Result(setState(updateEmergencyData(us, senderId, [verificationDoc |-> attachment.url]),
                  senderId, "awaiting_additional_info", t),
         <<"VERIFICATION_RECEIVED_ASK_ADDITIONAL_INFO">>, <<>>)

\* The attachment branch of handleMessage for an image (attachments[0]).
HandleImageAttachment(us, senderId, attachment, t) ==
  IF Has(us, senderId) /\ us[senderId].state = "awaiting_verification_doc"
  THEN LET imageUrl == IF IsSome(attachment.url) /\ Val(attachment.url) # <<>>
                       THEN Val(attachment.url)
                       ELSE <<"I","m","a","g","e"," ","r","e","c","e","i","v","e","d">>
           u1 == updateEmergencyData(us, senderId, [verificationDoc |-> Some(imageUrl)])
           u2 == setState(u1, senderId, "awaiting_additional_info", t)
       IN  Result(u2, <<"VERIFICATION_RECEIVED_ASK_ADDITIONAL_INFO">>, <<>>)
  ELSE Result(us, <<"IMAGE_RECEIVED_TYPE_HELP">>, <<>>)

\* A variant of RejectInput that ends the session on a validation failure.
RejectInputEndingSession(us, senderId, prompt) == Result(clearState(us, senderId), <<prompt>>, <<>>)

\* The else branch of a validating step: only the re-prompt is sent.
RejectInput(us, senderId, prompt) == Result(us, <<prompt>>, <<>>)

\* The state-based conversation flow of handleMessage (currentState is set).
HandleStep(us, senderId, text, quickReplyPayload, t) ==
  LET state == us[senderId].state
  IN  CASE state = "awaiting_assistance_type" ->
             LET selectedType == SelectedType(text, quickReplyPayload)
             IN  IF IsSome(selectedType)
                 THEN Result(setState(addAssistanceType(us, senderId, Capitalize(Val(selectedType))),
                                      senderId, "awaiting_more_assistance", t),
                             <<"ASK_MORE_ASSISTANCE">>, <<>>)
                 ELSE RejectInput(us, senderId, "ASSISTANCE_TYPE_OPTIONS")
        [] state = "awaiting_more_assistance" ->
             IF ToLowerCase(text) = KwYes
             THEN Result(setState(us, senderId, "awaiting_assistance_type", t),
                         <<"ASSISTANCE_TYPE_OPTIONS">>, <<>>)
             ELSE Result(setState(us, senderId, "awaiting_contact_name", t),
                         <<"ASK_CONTACT_NAME">>, <<>>)
        [] state = "awaiting_contact_name" ->
             IF ValidContactName(text)
             THEN Result(setState(updateEmergencyData(us, senderId, [contactName |-> Some(text)]),
                                  senderId, "awaiting_contact_number", t),
                         <<"ASK_CONTACT_NUMBER">>, <<>>)
             ELSE RejectInput(us, senderId, "INVALID_NAME")
        [] state = "awaiting_contact_number" ->
             IF ValidContactNumber(text)
             THEN Result(setState(updateEmergencyData(us, senderId, [contactNumber |-> Some(text)]),
                                  senderId, "awaiting_number_of_people", t),
                         <<"ASK_NUMBER_OF_PEOPLE">>, <<>>)
             ELSE RejectInput(us, senderId, "INVALID_PHONE_NUMBER")
        [] state = "awaiting_number_of_people" ->
             IF ValidNumberOfPeople(text)
             THEN Result(setState(updateEmergencyData(us, senderId, [numberOfPeople |-> ParseInt(text)]),
                                  senderId, "awaiting_urgency_level", t),
                         <<"ASK_URGENCY_LEVEL">>, <<>>)
             ELSE RejectInput(us, senderId, "INVALID_NUMBER_OF_PEOPLE")
        [] state = "awaiting_urgency_level" ->
             IF ValidUrgencyLevel(text)
             THEN Result(setState(updateEmergencyData(us, senderId, [urgencyLevel |-> Some(ToUpperCase(text))]),
                                  senderId, "awaiting_location", t),
                         <<"ASK_LOCATION">>, <<>>)
             ELSE RejectInput(us, senderId, "ASK_URGENCY_LEVEL")
        [] state = "awaiting_additional_info" ->
             LET u1 == IF ToLowerCase(text) # KwSkip
                       THEN updateEmergencyData(us, senderId, [additionalInfo |-> Some(text)])
                       ELSE us
             IN  Result(clearState(u1, senderId), <<"REQUEST_SUBMITTED">>,
                        finalizeEmergencyRequest(u1, senderId))
        [] OTHER -> Result(us, <<"NOT_UNDERSTOOD_TYPE_HELP">>, <<>>)

\* handleMessage after its first await (the typing indicator): from the read of
\* currentState to the last write of the store the code runs without a
\* suspension that lets another callback in. (The one await in between, of
\* finalizeEmergencyRequest before clearState, is of a function that awaits
\* nothing: it resumes from the microtask queue, ahead of any timer or I/O
\* callback.)
handleMessage(us, senderId, msg, t) ==
  LET text == Trim(msg.text)
      atts == msg.attachments
  IN  IF atts # <<>> /\ atts[1].type = "location"
      THEN HandleLocationAttachment(us, senderId, atts[1], t)
      ELSE IF atts # <<>> /\ atts[1].type = "image"
      THEN HandleImageAttachment(us, senderId, atts[1], t)
      ELSE IF IsStartCommand(text)
      THEN Result(setState(us, senderId, "awaiting_assistance_type", t),
                  <<"ASSISTANCE_TYPE_OPTIONS">>, <<>>)
      ELSE IF IsCancelCommand(text)
      THEN Result(clearState(us, senderId), <<"REQUEST_CANCELLED">>, <<>>)
      ELSE IF ~Has(us, senderId)
      THEN Result(us, <<"WELCOME_TYPE_HELP">>, <<>>)
      ELSE HandleStep(us, senderId, text, msg.quick_reply, t)

handlePostback(us, senderId, postback, t) ==
  IF postback.payload = "GET_STARTED"
  THEN Result(setState(us, senderId, "start", t), <<"GET_STARTED_WELCOME">>, <<>>)
  ELSE Result(us, <<>>, <<>>)

\* The body of the event loop of app.post('/webhook') of the emergency bot for
\* one event: dispatch, and the catch that answers with an apology.
EmergencyEvent(us, senderId, event, t) ==
  LET r == IF event.kind = "message" THEN handleMessage(us, senderId, event.message, t)
           ELSE IF event.kind = "postback" THEN handlePostback(us, senderId, event.postback, t)
           ELSE Result(us, <<>>, <<>>)
  IN  IF r.threw THEN Result(r.us, <<"ERROR_APOLOGY">>, <<>>) ELSE r

\* ======================================================== pet-report bot
KwDone == <<"d","o","n","e">>

PSteps ==
  {"animal_type", "animal_name", "owner_name", "contact_no", "facebook_account",
   "last_seen", "image", "ask_more"}

\* currentPet: { imageUrls: [] }
NewPet ==
  [animalType |-> Undefined, animalName |-> Undefined, lastSeenLocation |-> Undefined,
   imageUrls |-> <<>>]

NewSession(t) ==
  [pets |-> <<>>, currentPet |-> NewPet, contactNo |-> Undefined, contactName |-> Undefined,
   facebookAccount |-> Undefined, currentStep |-> "animal_type", createdAt |-> t,
   isProcessing |-> FALSE, currentPetInPets |-> FALSE]

\* session.currentPet.<field> = value, or a push on session.currentPet.imageUrls.
\* currentPetInPets records that the last element of pets is the very object
\* currentPet (pushed by ADD_MORE_NO and not replaced), which the write then
\* changes as well.
SetPetField(session, field, value) ==
  LET pet == [session.currentPet EXCEPT ![field] = value]
  IN  [session EXCEPT !.currentPet = pet,
                      !.pets = IF session.currentPetInPets THEN [@ EXCEPT ![Len(@)] = pet] ELSE @]

initializeUserSession(ss, senderId, t) == Put(ss, senderId, NewSession(t))

\* const session = userSessions.get(senderId) || initializeUserSession(senderId);
\* userSessions.set(senderId, { ...session, ...updates })
updateUserSession(ss, senderId, updates, t) ==
  LET session == IF Has(ss, senderId) THEN ss[senderId] ELSE NewSession(t)
  IN  Put(ss, senderId, Spread(session, updates))

\* A JavaScript string is truthy when it is set and not empty.
Truthy(o) == IsSome(o) /\ Val(o) # <<>>

\* A variant of validateCurrentPet that passes every pet.
validateCurrentPetAnyPet(pet) == TRUE

validateCurrentPet(pet) ==
  Truthy(pet.animalType) /\ Truthy(pet.animalName) /\ Truthy(pet.lastSeenLocation)

\* /^(09|\+639)\d{9}$/.test(phone.replace(/[\s-]/g, ''))
isValidPhoneNumber(phone) ==
  LET p == RemoveSpacesAndDashes(phone)
      d == IF Len(p) >= 2 /\ SubSeq(p, 1, 2) = <<"0","9">> THEN Some(SubSeq(p, 3, Len(p)))
           ELSE IF Len(p) >= 4 /\ SubSeq(p, 1, 4) = <<"+","6","3","9">>
           THEN Some(SubSeq(p, 5, Len(p)))
           ELSE Undefined
  IN  IsSome(d) /\ Len(Val(d)) = 9 /\ \A i \in 1..9 : IsDigit(Val(d)[i])

\* /^https?:\/\/.+/i
IsUrl(text) ==
  LET l    == ToLowerCase(text)
      rest == IF Len(l) >= 4 /\ SubSeq(l, 1, 4) = <<"h","t","t","p">>
              THEN Some(IF Len(l) >= 5 /\ l[5] = "s" THEN SubSeq(l, 6, Len(l)) ELSE SubSeq(l, 5, Len(l)))
              ELSE Undefined
  IN  IsSome(rest) /\ Len(Val(rest)) >= 4 /\ SubSeq(Val(rest), 1, 3) = <<":","/","/">>

\* What saveReportToFile writes: JSON.stringify({ senderId, ...data }).
Report(senderId, data) ==
  [senderId |-> senderId, pets |-> data.pets, contactName |-> data.contactName,
   contactNo |-> data.contactNo, facebookAccount |-> data.facebookAccount]

\* One run of a handler between two suspensions: the store, the messages handed
\* to callSendAPI, the reports written, and where the handler continues.
Seg(ss, msgs, fin, pc) == [ss |-> ss, msgs |-> msgs, fin |-> fin, pc |-> pc]

\* A variant of AlreadyProcessing that never finds a submission under way.
AlreadyProcessingNever(ss, senderId) == FALSE

\* Prevent duplicate processing: if (session?.isProcessing) return
AlreadyProcessing(ss, senderId) == Has(ss, senderId) /\ ss[senderId].isProcessing

\* handleQuickReply up to its first suspension.
handleQuickReply(ss, senderId, payload, t) ==
  IF AlreadyProcessing(ss, senderId)
  THEN Seg(ss, <<>>, <<>>, "done")
  ELSE CASE payload = "REPORT_YES" ->
              Seg(initializeUserSession(ss, senderId, t), <<"START">>, <<>>, "done")
         [] payload = "REPORT_NO" ->
              Seg(ss, <<"THANKS">>, <<>>, "delete")
         [] payload = "ADD_MORE_YES" ->
              IF Has(ss, senderId)
              THEN LET session == ss[senderId]
                       pets == IF validateCurrentPet(session.currentPet)
                               THEN Append(session.pets, session.currentPet)
                               ELSE session.pets
                   IN  Seg(updateUserSession(ss, senderId,
                             [currentPet |-> NewPet, currentStep |-> "animal_type", pets |-> pets,
                              currentPetInPets |-> FALSE], t),
                           <<"ADDING_PET_START">>, <<>>, "done")
              ELSE Seg(ss, <<>>, <<>>, "done")
         [] payload = "ADD_MORE_NO" ->
              IF Has(ss, senderId)
              THEN LET session == ss[senderId]
                       isDuplicate ==
                         \E i \in 1..Len(session.pets) :
                           /\ session.pets[i].animalName = session.currentPet.animalName
                           /\ session.pets[i].animalType = session.currentPet.animalType
                       pushed == validateCurrentPet(session.currentPet) /\ ~isDuplicate
                       pets == IF pushed THEN Append(session.pets, session.currentPet)
                               ELSE session.pets
                       \* the push is on the array the stored session shares
                       s1 == updateUserSession(ss, senderId,
                               [isProcessing |-> TRUE, pets |-> pets,
                                currentPetInPets |-> pushed], t)
                   IN  IF Len(pets) = 0
                       THEN Seg(s1, <<"NO_VALID_PET">>, <<>>, "delete")
                       ELSE Seg(s1, <<>>, <<Report(senderId, [session EXCEPT !.pets = pets])>>,
                                "posted")
              ELSE Seg(ss, <<>>, <<>>, "done")
         [] OTHER -> Seg(ss, <<>>, <<>>, "done")

\* A validation failure of handleUserMessage: the warning is sent and it returns.
PetReject(ss, senderId, prompt) == Seg(ss, <<prompt>>, <<>>, "done")

\* A variant of IsFirstPet that asks for the owner details with every pet.
IsFirstPetAlways(session) == TRUE

\* Only ask for owner info if this is the first pet:
\* session.pets.length === 0 && !session.contactName
IsFirstPet(session) == Len(session.pets) = 0 /\ ~Truthy(session.contactName)

\* handleUserMessage up to its first suspension (the session exists).
handleUserMessage(ss, senderId, text, t) ==
  IF ~Has(ss, senderId) THEN Seg(ss, <<>>, <<>>, "done")
  ELSE
  LET session == ss[senderId]
      normalizedText == Trim(text)
      step == session.currentStep
  IN  IF ToLowerCase(normalizedText) = KwCancel
      THEN Seg(ss, <<"CANCEL">>, <<>>, "delete")
      ELSE CASE step = "animal_type" ->
             IF Len(normalizedText) < 2
             THEN PetReject(ss, senderId, "INVALID_ANIMAL_TYPE")
             ELSE Seg(Put(ss, senderId,
                        [SetPetField(session, "animalType", Some(normalizedText))
                           EXCEPT !.currentStep = "animal_name"]),
                      <<"ASK_NAME">>, <<>>, "done")
        [] step = "animal_name" ->
             IF Len(normalizedText) < 1
             THEN PetReject(ss, senderId, "INVALID_ANIMAL_NAME")
             ELSE IF IsFirstPet(session)
             THEN Seg(Put(ss, senderId,
                        [SetPetField(session, "animalName", Some(normalizedText))
                           EXCEPT !.currentStep = "owner_name"]),
                      <<"ASK_OWNER">>, <<>>, "done")
             ELSE Seg(Put(ss, senderId,
                        [SetPetField(session, "animalName", Some(normalizedText))
                           EXCEPT !.currentStep = "last_seen"]),
                      <<"ASK_LOCATION">>, <<>>, "done")
        [] step = "owner_name" ->
             IF Len(normalizedText) < 2
             THEN PetReject(ss, senderId, "INVALID_OWNER_NAME")
             ELSE Seg(updateUserSession(ss, senderId,
                        [contactName |-> Some(normalizedText), currentStep |-> "contact_no"], t),
                      <<"ASK_CONTACT">>, <<>>, "done")
        [] step = "contact_no" ->
             IF Len(RemoveSpacesAndDashes(normalizedText)) < 10
             THEN PetReject(ss, senderId, "INVALID_PHONE_NUMBER")
             ELSE Seg(updateUserSession(ss, senderId,
                        [contactNo |-> Some(normalizedText), currentStep |-> "facebook_account"], t),
                      <<"ASK_FACEBOOK">>, <<>>, "done")
        [] step = "facebook_account" ->
             Seg(updateUserSession(ss, senderId,
                   [facebookAccount |-> IF ToLowerCase(normalizedText) = KwSkip
                                        THEN Undefined ELSE Some(normalizedText),
                    currentStep |-> "last_seen"], t),
                 <<"ASK_LOCATION">>, <<>>, "done")
        [] step = "last_seen" ->
             IF Len(normalizedText) < 5
             THEN PetReject(ss, senderId, "INVALID_LOCATION")
             ELSE Seg(Put(ss, senderId,
                        [SetPetField(session, "lastSeenLocation", Some(normalizedText))
                           EXCEPT !.currentStep = "image"]),
                      <<"ASK_IMAGE">>, <<>>, "done")
        [] step = "image" ->
             IF ToLowerCase(normalizedText) = KwDone \/ ToLowerCase(normalizedText) = KwSkip
             THEN IF ~validateCurrentPet(session.currentPet)
                  THEN PetReject(ss, senderId, "MISSING_REQUIRED_INFORMATION")
                  ELSE Seg(ss, <<"PET_SUMMARY">>, <<>>, "ask_more")
             ELSE IF IsUrl(normalizedText)
             THEN Seg(Put(ss, senderId,
                        SetPetField(session, "imageUrls",
                                    Append(session.currentPet.imageUrls, normalizedText))),
                      <<"PHOTO_LINK_ADDED">>, <<>>, "done")
             ELSE PetReject(ss, senderId, "SEND_IMAGE_OR_DONE")
        [] OTHER -> Seg(ss, <<"SOMETHING_WENT_WRONG">>, <<>>, "done")

\* The urls an image attachment list adds: images.forEach(img => img.payload?.url && push)
RECURSIVE ImageUrlsOf(_)
ImageUrlsOf(attachments) ==
  IF attachments = <<>> THEN <<>>
  ELSE LET a == Head(attachments)
       IN  (IF a.type = "image" /\ Truthy(a.url) THEN <<Val(a.url)>> ELSE <<>>)
           \o ImageUrlsOf(Tail(attachments))

handleAttachment(ss, senderId, attachments, t) ==
  IF ~Has(ss, senderId) \/ ss[senderId].currentStep # "image"
  THEN Seg(ss, <<"WAIT_FOR_PHOTO_REQUEST">>, <<>>, "done")
  ELSE IF \E i \in 1..Len(attachments) : attachments[i].type = "image"
  THEN LET session == SetPetField(ss[senderId], "imageUrls",
                          ss[senderId].currentPet.imageUrls \o ImageUrlsOf(attachments))
       IN  Seg(updateUserSession(Put(ss, senderId, session), senderId, session, t),
               <<"PHOTOS_RECEIVED">>, <<>>, "done")
  ELSE Seg(ss, <<"IMAGE_FILES_ONLY">>, <<>>, "done")

\* The body of the event loop of app.post("/webhook") of the pet-report bot for
\* one event, up to the first suspension of the handler it calls.
PetDispatch(ss, senderId, event, t) ==
  IF event.kind = "postback"
  THEN IF event.postback.payload = "GET_STARTED"
       THEN Seg(ss, <<"WELCOME">>, <<>>, "done")
       ELSE Seg(ss, <<>>, <<>>, "done")
  ELSE IF event.kind # "message" THEN Seg(ss, <<>>, <<>>, "done")
  ELSE IF IsSome(event.message.quick_reply)
  THEN handleQuickReply(ss, senderId, Val(event.message.quick_reply), t)
  ELSE IF event.message.attachments # <<>>
  THEN handleAttachment(ss, senderId, event.message.attachments, t)
  ELSE IF event.message.text # <<>>
  THEN IF Has(ss, senderId)
       THEN handleUserMessage(ss, senderId, event.message.text, t)
       ELSE Seg(ss, <<"WELCOME">>, <<>>, "done")
  ELSE Seg(ss, <<>>, <<>>, "done")

\* One segment of the handling of an event: from pc to the next suspension.
\* postOk is the outcome of postToPageFeed (a post URL, or null).
PetSegment(ss, senderId, event, postOk, pc, t) ==
  CASE pc = "start"    -> PetDispatch(ss, senderId, event, t)
    [] pc = "delete"   -> Seg(Remove(ss, senderId), <<>>, <<>>, "done")
    [] pc = "ask_more" -> Seg(updateUserSession(ss, senderId, [currentStep |-> "ask_more"], t),
                              <<"ASK_MORE_PETS">>, <<>>, "done")
    [] pc = "posted"   -> IF postOk THEN Seg(ss, <<"REPORT_POSTED_LINK">>, <<>>, "submitted")
                          ELSE Seg(ss, <<"SUBMIT_DONE">>, <<>>, "delete")
    [] pc = "submitted" -> Seg(ss, <<"SUBMIT_DONE">>, <<>>, "delete")
    [] OTHER -> Seg(ss, <<>>, <<>>, "done")

\* The handling of one event run to completion with nothing else in between.
RECURSIVE PetRun(_, _, _, _, _, _)
PetRun(cfg, senderId, event, postOk, pc, t) ==
  IF pc = "done" THEN cfg
  ELSE LET g == PetSegment(cfg.ss, senderId, event, postOk, pc, t)
       IN  PetRun([ss |-> g.ss, msgs |-> cfg.msgs \o g.msgs, fin |-> cfg.fin \o g.fin],
                  senderId, event, postOk, g.pc, t)

\* The hourly cleanup: for (const [senderId, session] of userSessions.entries())
RECURSIVE PetCleanupLoop(_, _, _)
PetCleanupLoop(ss, keys, t) ==
  IF keys = {} THEN ss
  ELSE LET senderId == CHOOSE k \in keys : TRUE
       IN  PetCleanupLoop(IF ss[senderId].createdAt < t - PET_SESSION_MAX_AGE_MS
                          THEN Remove(ss, senderId)
                          ELSE ss,
                          keys \ {senderId}, t)

PetCleanup(ss, t) == PetCleanupLoop(ss, DOMAIN ss, t)

\* One segment of the handling of an event by the emergency bot: handleMessage
\* first awaits the typing indicator, then runs to its last write of the store.
EmergencySegment(us, senderId, event, pc, t) ==
  CASE pc = "start" ->
         [us |-> us, msgs |-> <<>>, fin |-> <<>>,
          pc |-> IF event.kind = "message" THEN "typing" ELSE "main"]
    [] pc \in {"typing", "main"} ->
         LET r == EmergencyEvent(us, senderId, event, t)
         IN  [us |-> r.us, msgs |-> r.msgs, fin |-> r.fin, pc |-> "done"]
    [] OTHER -> [us |-> us, msgs |-> <<>>, fin |-> <<>>, pc |-> "done"]

\* ============================================================== events
Message(text, quick_reply, attachments) ==
  [kind |-> "message",
   message |-> [text |-> text, quick_reply |-> quick_reply, attachments |-> attachments],
   postback |-> [payload |-> ""]]

Postback(payload) ==
  [kind |-> "postback",
   message |-> [text |-> <<>>, quick_reply |-> Undefined, attachments |-> <<>>],
   postback |-> [payload |-> payload]]

Text(t) == Message(t, Undefined, <<>>)

LocationAttachment == [type |-> "location", coordinates |-> Some([lat |-> 14, long |-> 120]), url |-> Undefined]

BrokenLocationAttachment == [type |-> "location", coordinates |-> Undefined, url |-> Undefined]

TxUrl == <<"h","t","t","p",":","/","/","a",".","b">>

ImageAttachment == [type |-> "image", coordinates |-> Undefined, url |-> Some(TxUrl)]

AudioAttachment == [type |-> "audio", coordinates |-> Undefined, url |-> Undefined]

TxHelp == <<"H","e","l","p">>

TxCancel == <<"c","a","n","c","e","l">>

TxCancelHelp == <<"c","a","n","c","e","l"," ","h","e","l","p">>

TxFood == <<"f","o","o","d">>

TxWater == <<"W","a","t","e","r">>

TxYes == <<"Y","e","s">>

TxA == <<"a">>

TxPhone == <<"1","2","3","4","5","6","7">>

TxHigh == <<"h","i","g","h">>

TxSkip == <<"S","k","i","p">>

\* Inbound events of the emergency bot.
EmergencyEvents ==
  {Text(TxHelp), Text(TxCancel), Text(TxCancelHelp), Text(TxFood), Text(TxYes), Text(TxA),
   Text(TxPhone), Text(TxHigh), Text(TxSkip),
   Message(TxWater, Some(<<"W","A","T","E","R">>), <<>>),
   Message(<<>>, Undefined, <<LocationAttachment>>),
   Message(TxCancel, Undefined, <<LocationAttachment>>),
   Message(<<>>, Undefined, <<BrokenLocationAttachment>>),
   Message(<<>>, Undefined, <<ImageAttachment>>),
   Message(<<>>, Undefined, <<AudioAttachment>>),
   Postback("GET_STARTED"), Postback("OTHER")}

TxBlank == <<" ">>

TxCancelUpper == <<"C","a","n","c","e","l">>

QuickReply(payload) == Message(<<"o","k">>, Some(payload), <<>>)

\* Inbound events of the pet-report bot.
PetEvents ==
  {Text(TxBlank), Text(TxCancelUpper), Text(TxSkip), Text(TxUrl),
   QuickReply("REPORT_YES"), QuickReply("REPORT_NO"), QuickReply("ADD_MORE_YES"),
   QuickReply("ADD_MORE_NO"), QuickReply("OTHER"),
   Message(<<>>, Undefined, <<ImageAttachment>>),
   Message(<<>>, Undefined, <<AudioAttachment>>),
   Postback("GET_STARTED")}

\* An inbound event of the pet-report bot with the outcome of postToPageFeed,
\* which only the submission (ADD_MORE_NO) reaches.
PetInputs ==
  {<<e, TRUE>> : e \in PetEvents} \cup {<<QuickReply("ADD_MORE_NO"), FALSE>>}

Senders == {"u1", "u2"}

\* The caps of the model on what the code lets grow without limit.
WithinCaps(ss) ==
  \A k \in DOMAIN ss :
    /\ Len(ss[k].pets) <= MaxPets
    /\ Len(ss[k].currentPet.imageUrls) <= MaxImages

\* ================================================================ state
\* bot          which program runs
\* now          Date.now()
\* ticks        how often the clock advanced
\* userState    the emergency bot's store
\* userSessions the pet-report bot's store
\* outbox       the messages handed to callSendAPI by the latest event(s)
\* finalized    the requests or reports finalized by the latest event(s)
\* cleaned      the count the sweep logged, when the sweep is the latest step
\* inflight     the handlers suspended at an await
\* base         the store when the handlers in flight arrived
Init ==
  /\ bot \in {"emergency", "pet"}
  /\ now = 0
  /\ ticks = 0
  /\ userState = <<>>
  /\ userSessions = <<>>
  /\ outbox = <<>>
  /\ finalized = <<>>
  /\ cleaned = 0
  /\ inflight = <<>>
  /\ base = <<>>

\* The emergency bot handles one inbound event to completion.
EmergencyReceive(senderId, event) ==
  /\ bot = "emergency"
  /\ inflight = <<>>
  /\ LET r == EmergencyEvent(userState, senderId, event, now)
     IN  /\ userState' = r.us
         /\ outbox' = r.msgs
         /\ finalized' = r.fin
  /\ cleaned' = 0
  /\ UNCHANGED <<bot, now, ticks, userSessions, inflight, base>>

\* The pet-report bot handles one inbound event to completion.
PetReceive(senderId, event, postOk) ==
  /\ bot = "pet"
  /\ inflight = <<>>
  /\ LET r == PetRun([ss |-> userSessions, msgs |-> <<>>, fin |-> <<>>],
                     senderId, event, postOk, "start", now)
     IN  /\ WithinCaps(r.ss)
         /\ userSessions' = r.ss
         /\ outbox' = r.msgs
         /\ finalized' = r.fin
  /\ cleaned' = 0
  /\ UNCHANGED <<bot, now, ticks, userState, inflight, base>>

\* Time passes.
TickSteps == {1, STATE_TIMEOUT_MS}

Tick(d) ==
  /\ ticks < MaxTicks
  /\ inflight = <<>>
  /\ now' = now + d
  /\ ticks' = ticks + 1
  /\ cleaned' = 0
  /\ UNCHANGED <<bot, userState, userSessions, outbox, finalized, inflight, base>>

\* setInterval(cleanupOldStates, CLEANUP_INTERVAL_MS) fires.
EmergencySweep ==
  /\ bot = "emergency"
  /\ userState' = cleanupOldStates(userState, now)
  /\ cleaned' = Cardinality(DOMAIN userState) - Cardinality(DOMAIN userState')
  /\ UNCHANGED <<bot, now, ticks, userSessions, outbox, finalized, inflight, base>>

\* The hourly setInterval of the pet-report bot fires.
PetSweep ==
  /\ bot = "pet"
  /\ userSessions' = PetCleanup(userSessions, now)
  /\ cleaned' = Cardinality(DOMAIN userSessions) - Cardinality(DOMAIN userSessions')
  /\ UNCHANGED <<bot, now, ticks, userState, outbox, finalized, inflight, base>>

\* ----------------------------------------------- handlers that interleave
\* A handler in flight: its event and where it continues after its await.
Handler(senderId, event, postOk) ==
  [senderId |-> senderId, event |-> event, postOk |-> postOk, pc |-> "start"]

\* Webhook requests arrive (one event each); their handlers run interleaved
\* from here.
Arrive(handlers) ==
  /\ inflight = <<>>
  /\ inflight' = handlers
  /\ base' = IF bot = "emergency" THEN userState ELSE userSessions
  /\ outbox' = <<>>
  /\ finalized' = <<>>
  /\ cleaned' = 0
  /\ UNCHANGED <<bot, now, ticks, userState, userSessions>>

\* The handler at position i runs until its next await (or its end).
ResumeEmergency(i) ==
  /\ bot = "emergency"
  /\ i \in 1..Len(inflight)
  /\ inflight[i].pc # "done"
  /\ LET h == inflight[i]
         g == EmergencySegment(userState, h.senderId, h.event, h.pc, now)
     IN  /\ userState' = g.us
         /\ outbox' = outbox \o g.msgs
         /\ finalized' = finalized \o g.fin
         /\ inflight' = [inflight EXCEPT ![i].pc = g.pc]
  /\ cleaned' = 0
  /\ UNCHANGED <<bot, now, ticks, userSessions, base>>

ResumePet(i) ==
  /\ bot = "pet"
  /\ i \in 1..Len(inflight)
  /\ inflight[i].pc # "done"
  /\ LET h == inflight[i]
         g == PetSegment(userSessions, h.senderId, h.event, h.postOk, h.pc, now)
     IN  /\ WithinCaps(g.ss)
         /\ userSessions' = g.ss
         /\ outbox' = outbox \o g.msgs
         /\ finalized' = finalized \o g.fin
         /\ inflight' = [inflight EXCEPT ![i].pc = g.pc]
  /\ cleaned' = 0
  /\ UNCHANGED <<bot, now, ticks, userState, base>>

\* ------------------------------------------------------- specifications
\* Spec: one sender talks to the bot; every event is handled to completion
\* before the next one arrives.
Next ==
  \/ \E event \in EmergencyEvents : EmergencyReceive("u1", event)
  \/ \E in \in PetInputs : PetReceive("u1", in[1], in[2])

Spec == Init /\ [][Next]_vars

\* SpecSweep: two senders, the clock and the periodic sweeps; every event is
\* handled to completion before the next step.
SweepEmergencyEvents == {Text(TxHelp), Text(TxFood)}

SweepPetInputs == {<<QuickReply("REPORT_YES"), TRUE>>, <<Text(TxUrl), TRUE>>}

NextSweep ==
  \/ \E senderId \in Senders, event \in SweepEmergencyEvents : EmergencyReceive(senderId, event)
  \/ \E senderId \in Senders, in \in SweepPetInputs : PetReceive(senderId, in[1], in[2])
  \/ \E d \in TickSteps : Tick(d)
  \/ EmergencySweep
  \/ PetSweep

SpecSweep == Init /\ [][NextSweep]_vars

\* SpecConc: one sender; after events handled one at a time, two requests for
\* the sender arrive together and their handlers interleave at their awaits.
ConcEmergencyBuild == {Text(TxHelp), Text(TxFood)}

ConcEmergencyEvents == {Text(TxFood), Text(TxYes), Text(TxCancel)}

ConcPetBuild ==
  {<<QuickReply("REPORT_YES"), TRUE>>, <<Text(TxUrl), TRUE>>, <<QuickReply("ADD_MORE_YES"), TRUE>>}

ConcPetEvents ==
  {Text(TxSkip), Text(TxCancelUpper), QuickReply("ADD_MORE_YES"), QuickReply("ADD_MORE_NO")}

ConcEvents == IF bot = "emergency" THEN ConcEmergencyEvents ELSE ConcPetEvents

NextConc ==
  \/ \E event \in ConcEmergencyBuild : EmergencyReceive("u1", event)
  \/ \E in \in ConcPetBuild : PetReceive("u1", in[1], in[2])
  \/ \E e1, e2 \in ConcEvents : Arrive(<<Handler("u1", e1, TRUE), Handler("u1", e2, TRUE)>>)
  \/ \E i \in 1..2 : ResumeEmergency(i)
  \/ \E i \in 1..2 : ResumePet(i)

SpecConc == Init /\ [][NextConc]_vars

\* SpecConcSweep: one sender, the clock, and the sweep firing while a handler
\* is suspended at an await.
NextConcSweep ==
  \/ \E event \in ConcEmergencyBuild : EmergencyReceive("u1", event)
  \/ \E in \in ConcPetBuild : PetReceive("u1", in[1], in[2])
  \/ \E e1 \in ConcEvents : Arrive(<<Handler("u1", e1, TRUE)>>)
  \/ ResumeEmergency(1)
  \/ ResumePet(1)
  \/ \E d \in TickSteps : Tick(d)
  \/ EmergencySweep
  \/ PetSweep

SpecConcSweep == Init /\ [][NextConcSweep]_vars

\* ------------------------------------------------ outbound sends that fail
\* The outcome of an outbound request seen by its caller: whether the call
\* threw, and whether the request went out.
petCallSendAPIUncaught(sendOk) == [threw |-> ~sendOk, delivered |-> sendOk]

\* What the recipient got of the messages handed to a send.
Delivered(msgs, sent) ==
  IF sent.delivered THEN msgs ELSE [i \in DOMAIN msgs |-> "UNDELIVERED"]

\* await fetch(...).catch(e => console.error("Typing indicator error:", e))
sendTypingIndicator(sendOk) == [threw |-> FALSE, delivered |-> sendOk]

\* try { const res = await fetch(...); if (!res.ok) {...} } catch (error) { console.error(...) }
callSendAPI(sendOk) == [threw |-> FALSE, delivered |-> sendOk]

\* try { await axios.post(...) } catch (err) { console.error(...) }
petCallSendAPI(sendOk) == [threw |-> FALSE, delivered |-> sendOk]

\* The outcomes of the sends of one handler run of the emergency bot: the typing
\* indicator switched on before the store is read, the typing indicator switched
\* off and the reply after the last write.
SendOutcomes == [typingOn : BOOLEAN, typingOff : BOOLEAN, reply : BOOLEAN]

AllSent == [typingOn |-> TRUE, typingOff |-> TRUE, reply |-> TRUE]

\* handleMessage / handlePostback with the outcome of each send: a send that
\* throws ends the handler where it stands.
EmergencyHandlerSending(us, senderId, event, sends, t) ==
  IF event.kind = "message" /\ sendTypingIndicator(sends.typingOn).threw
  THEN Thrown(us)
  ELSE LET r == IF event.kind = "message" THEN handleMessage(us, senderId, event.message, t)
                ELSE IF event.kind = "postback"
                THEN handlePostback(us, senderId, event.postback, t)
                ELSE Result(us, <<>>, <<>>)
       IN  IF r.threw \/ r.msgs = <<>> THEN r
           ELSE IF \/ event.kind = "message" /\ sendTypingIndicator(sends.typingOff).threw
                   \/ callSendAPI(sends.reply).threw
           THEN [r EXCEPT !.msgs = <<>>, !.threw = TRUE]
           ELSE [r EXCEPT !.msgs = Delivered(r.msgs, callSendAPI(sends.reply))]

\* The body of the event loop of app.post('/webhook') of the emergency bot for
\* one event, with the outcome of each send.
EmergencyEventSending(us, senderId, event, sends, t) ==
  LET r == EmergencyHandlerSending(us, senderId, event, sends, t)
  IN  IF r.threw
      THEN Result(r.us, Delivered(<<"ERROR_APOLOGY">>, callSendAPI(sends.reply)), r.fin)
      ELSE r

\* The segments of a handler run of the pet-report bot that end in a send.
PetSendPoints == {"start", "ask_more", "posted", "submitted"}

\* One segment with the outcome of its send: every segment that sends is
\* suspended at that send, and a send that throws ends the handler there.
PetSegmentSending(ss, senderId, event, postOk, failed, pc, t) ==
  LET g == PetSegment(ss, senderId, event, postOk, pc, t)
  IN  IF g.msgs # <<>> /\ petCallSendAPI(pc \notin failed).threw
      THEN [g EXCEPT !.msgs = <<>>, !.pc = "thrown"]
      ELSE [g EXCEPT !.msgs = Delivered(g.msgs, petCallSendAPI(pc \notin failed))]

RECURSIVE PetRunSending(_, _, _, _, _, _, _)
PetRunSending(cfg, senderId, event, postOk, failed, pc, t) ==
  IF pc \in {"done", "thrown"} THEN [cfg EXCEPT !.threw = (pc = "thrown")]
  ELSE LET g == PetSegmentSending(cfg.ss, senderId, event, postOk, failed, pc, t)
       IN  PetRunSending([ss |-> g.ss, msgs |-> cfg.msgs \o g.msgs, fin |-> cfg.fin \o g.fin,
                          threw |-> FALSE],
                         senderId, event, postOk, failed, g.pc, t)

PetEventSending(ss, senderId, event, postOk, failed, t) ==
  PetRunSending([ss |-> ss, msgs |-> <<>>, fin |-> <<>>, threw |-> FALSE],
                senderId, event, postOk, failed, "start", t)

\* The emergency bot handles one inbound event to completion; each of its
\* sends succeeds or fails.
EmergencyReceiveSending(senderId, event, sends) ==
  /\ bot = "emergency"
  /\ inflight = <<>>
  /\ LET r == EmergencyEventSending(userState, senderId, event, sends, now)
     IN  /\ userState' = r.us
         /\ outbox' = r.msgs
         /\ finalized' = r.fin
  /\ cleaned' = 0
  /\ UNCHANGED <<bot, now, ticks, userSessions, inflight, base>>

\* The pet-report bot handles one inbound event to completion; the sends of
\* the segments in failed fail.
PetReceiveSending(senderId, event, postOk, failed) ==
  /\ bot = "pet"
  /\ inflight = <<>>
  /\ LET r == PetEventSending(userSessions, senderId, event, postOk, failed, now)
     IN  /\ WithinCaps(r.ss)
         /\ userSessions' = r.ss
         /\ outbox' = r.msgs
         /\ finalized' = r.fin
  /\ cleaned' = 0
  /\ UNCHANGED <<bot, now, ticks, userState, inflight, base>>

\* SpecSend: one sender talks to the bot; every event is handled to completion,
\* and every outbound send of its handler succeeds or fails.
SendEmergencyEvents ==
  {Text(TxHelp), Text(TxCancel), Text(TxFood), Text(TxA), Text(TxPhone), Text(TxHigh),
   Text(TxSkip),
   Message(<<>>, Undefined, <<LocationAttachment>>),
   Message(<<>>, Undefined, <<BrokenLocationAttachment>>),
   Message(<<>>, Undefined, <<ImageAttachment>>),
   Postback("GET_STARTED")}

SendPetInputs ==
  {<<e, TRUE>> : e \in {Text(TxCancelUpper), Text(TxSkip), Text(TxUrl),
                         QuickReply("REPORT_YES"), QuickReply("REPORT_NO"),
                         QuickReply("ADD_MORE_YES"), QuickReply("ADD_MORE_NO"),
                         Message(<<>>, Undefined, <<ImageAttachment>>)}}
    \cup {<<QuickReply("ADD_MORE_NO"), FALSE>>}

\* The sends of one handler run of the pet-report bot that fail: none, the
\* send of one segment, or all of them.
PetSendFailures == {{}, PetSendPoints} \cup {{pc} : pc \in PetSendPoints}

NextSend ==
  \/ \E event \in SendEmergencyEvents, sends \in SendOutcomes :
       EmergencyReceiveSending("u1", event, sends)
  \/ \E in \in SendPetInputs, failed \in PetSendFailures :
       PetReceiveSending("u1", in[1], in[2], failed)

SpecSend == Init /\ [][NextSend]_vars

\* ------------------------------------------------------ batches of events
\* One element of entry.messaging: event.sender?.id, the event, and the
\* outcomes of postToPageFeed and of fs.writeFileSync should its handler get
\* that far.
Entry(sender, event, postOk, writeOk) ==
  [sender |-> sender, event |-> event, postOk |-> postOk, writeOk |-> writeOk]

\* What a batch has done so far: the store, the messages handed to callSendAPI,
\* the finalized requests, and the positions of the events given to a handler.
Batch(store, msgs, fin, handled) ==
  [store |-> store, msgs |-> msgs, fin |-> fin, handled |-> handled]

\* The batch after the handler of the event at position i ended with outcome r
\* and the store as given.
Handled(cfg, i, store, r) ==
  Batch(store, cfg.msgs \o r.msgs, cfg.fin \o r.fin, Append(cfg.handled, i))

\* for (const event of entry.messaging) of the emergency bot, from position i:
\* the try/catch around the handler keeps the loop going.
RECURSIVE EmergencyBatchLoop(_, _, _, _)
EmergencyBatchLoop(cfg, events, i, t) ==
  IF i > Len(events) THEN cfg
  ELSE IF ~IsSome(events[i].sender) THEN EmergencyBatchLoop(cfg, events, i + 1, t)
  ELSE EmergencyBatchLoop(
         Handled(cfg, i, EmergencyEvent(cfg.store, Val(events[i].sender), events[i].event, t).us,
                 EmergencyEvent(cfg.store, Val(events[i].sender), events[i].event, t)),
         events, i + 1, t)

\* The handling of one event by the pet-report bot with the outcome of
\* fs.writeFileSync(filePath, reportText) in saveReportToFile, which the
\* submission reaches before its first suspension: when it throws, the handler
\* rejects with the session flagged isProcessing and nothing sent or saved.
PetEventWriting(ss, senderId, event, postOk, writeOk, t) ==
  IF PetSegment(ss, senderId, event, postOk, "start", t).pc = "posted" /\ ~writeOk
  THEN [ss |-> PetSegment(ss, senderId, event, postOk, "start", t).ss,
        msgs |-> <<>>, fin |-> <<>>, threw |-> TRUE]
  ELSE [ss |-> PetRun([ss |-> ss, msgs |-> <<>>, fin |-> <<>>],
                      senderId, event, postOk, "start", t).ss,
        msgs |-> PetRun([ss |-> ss, msgs |-> <<>>, fin |-> <<>>],
                        senderId, event, postOk, "start", t).msgs,
        fin |-> PetRun([ss |-> ss, msgs |-> <<>>, fin |-> <<>>],
                       senderId, event, postOk, "start", t).fin,
        threw |-> FALSE]

\* for (const event of entry.messaging) of the pet-report bot, from position
\* i: nothing catches a handler that rejects, so the loop ends with it.
RECURSIVE PetBatchLoop(_, _, _, _), PetBatchAfter(_, _, _, _, _)
PetBatchLoop(cfg, events, i, t) ==
  IF i > Len(events) THEN cfg
  ELSE IF ~IsSome(events[i].sender) THEN PetBatchLoop(cfg, events, i + 1, t)
  ELSE PetBatchAfter(cfg, events, i, t,
                     PetEventWriting(cfg.store, Val(events[i].sender), events[i].event,
                                     events[i].postOk, events[i].writeOk, t))

PetBatchAfter(cfg, events, i, t, r) ==
  IF r.threw THEN Handled(cfg, i, r.ss, r)
  ELSE PetBatchLoop(Handled(cfg, i, r.ss, r), events, i + 1, t)

\* The emergency bot handles the events of one webhook request in order.
EmergencyBatch(events) ==
  /\ bot = "emergency"
  /\ inflight = <<>>
  /\ LET r == EmergencyBatchLoop(Batch(userState, <<>>, <<>>, <<>>), events, 1, now)
     IN  /\ userState' = r.store
         /\ outbox' = r.msgs
         /\ finalized' = r.fin
  /\ cleaned' = 0
  /\ UNCHANGED <<bot, now, ticks, userSessions, inflight, base>>

\* The pet-report bot handles the events of one webhook request in order.
PetBatch(events) ==
  /\ bot = "pet"
  /\ inflight = <<>>
  /\ LET r == PetBatchLoop(Batch(userSessions, <<>>, <<>>, <<>>), events, 1, now)
     IN  /\ WithinCaps(r.store)
         /\ userSessions' = r.store
         /\ outbox' = r.msgs
         /\ finalized' = r.fin
  /\ cleaned' = 0
  /\ UNCHANGED <<bot, now, ticks, userState, inflight, base>>

\* SpecBatch: sender u1 talks to the bot one event at a time, and webhook
\* requests carrying two events (of u1, of u2, or without a sender id) arrive.
BatchEmergencyBuild == {Text(TxHelp), Text(TxFood), Text(TxA), Text(TxPhone)}

BatchEmergencyEntries ==
  {Entry(Undefined, Text(TxHelp), TRUE, TRUE),
   Entry(Some("u1"), Message(<<>>, Undefined, <<BrokenLocationAttachment>>), TRUE, TRUE),
   Entry(Some("u1"), Text(TxCancel), TRUE, TRUE),
   Entry(Some("u2"), Text(TxHelp), TRUE, TRUE),
   Entry(Some("u2"), Text(TxFood), TRUE, TRUE)}

BatchPetBuild ==
  {<<e, TRUE>> : e \in {QuickReply("REPORT_YES"), Text(TxUrl), Text(TxSkip),
                         Message(<<>>, Undefined, <<ImageAttachment>>)}}

BatchPetEntries ==
  {Entry(Undefined, QuickReply("REPORT_YES"), TRUE, TRUE),
   Entry(Some("u1"), QuickReply("ADD_MORE_NO"), TRUE, TRUE),
   Entry(Some("u1"), QuickReply("ADD_MORE_NO"), TRUE, FALSE),
   Entry(Some("u2"), QuickReply("REPORT_YES"), TRUE, TRUE),
   Entry(Some("u2"), Text(TxCancelUpper), TRUE, TRUE)}

Batches(entries) == {<<e1, e2>> : e1 \in entries, e2 \in entries}

NextBatch ==
  \/ \E event \in BatchEmergencyBuild : EmergencyReceive("u1", event)
  \/ \E in \in BatchPetBuild : PetReceive("u1", in[1], in[2])
  \/ \E events \in Batches(BatchEmergencyEntries) : EmergencyBatch(events)
  \/ \E events \in Batches(BatchPetEntries) : PetBatch(events)

SpecBatch == Init /\ [][NextBatch]_vars

\* ---------------------------------------------- texts at the people count
TxThreeAbc == <<"3","a","b","c">>

TxZero == <<"0">>

TxMinusThree == <<"-","3">>

TxAbc == <<"a","b","c">>

TxTwo == <<"2">>

\* SpecPeople: one sender of the emergency bot walks to the people-count step
\* and answers it with numbers and with texts that are not numbers.
PeopleEmergencyEvents ==
  {Text(TxHelp), Text(TxFood), Text(TxYes), Text(TxPhone), Text(TxHigh),
   Text(TxThreeAbc), Text(TxZero), Text(TxMinusThree), Text(TxAbc), Text(TxTwo)}

NextPeople == \E event \in PeopleEmergencyEvents : EmergencyReceive("u1", event)

SpecPeople == Init /\ [][NextPeople]_vars

\* ------------------------------------------- answers at the enumerated steps
TxOk == <<"o","k">>

\* SpecEnum: one sender of the emergency bot answers the assistance-type and
\* urgency steps by typed text, by quick-reply payload, or by both.
EnumEmergencyEvents ==
  {Text(TxHelp), Text(TxFood), Text(TxYes), Text(TxPhone), Text(TxHigh), Text(TxAbc),
   Message(TxWater, Some(<<"W","A","T","E","R">>), <<>>),
   Message(TxOk, Some(<<"f","o","o","d">>), <<>>),
   Message(TxOk, Some(<<"h","i","g","h">>), <<>>),
   Message(TxHigh, Some(<<"H","I","G","H">>), <<>>)}

NextEnum == \E event \in EnumEmergencyEvents : EmergencyReceive("u1", event)

SpecEnum == Init /\ [][NextEnum]_vars

\* ---------------------------------------------------------- two senders
\* SpecTwo: two senders talk to the bot in any order; every event is handled
\* to completion before the next one arrives.
TwoEmergencyEvents ==
  {Text(TxHelp), Text(TxFood), Text(TxCancel), Text(TxSkip),
   Message(<<>>, Undefined, <<LocationAttachment>>),
   Message(<<>>, Undefined, <<ImageAttachment>>),
   Postback("GET_STARTED")}

TwoPetInputs ==
  {<<e, TRUE>> : e \in {Text(TxUrl), Text(TxSkip), Text(TxCancelUpper),
                         QuickReply("REPORT_YES"), QuickReply("REPORT_NO"),
                         QuickReply("ADD_MORE_NO")}}

NextTwo ==
  \/ \E senderId \in Senders, event \in TwoEmergencyEvents : EmergencyReceive(senderId, event)
  \/ \E senderId \in Senders, in \in TwoPetInputs : PetReceive(senderId, in[1], in[2])

SpecTwo == Init /\ [][NextTwo]_vars

\* SpecAbandon: two senders, the clock and the periodic sweeps, as in
\* SpecSweep, but the senders fall silent: inbound events arrive only during
\* the first MaxTicks clock advances, after which the clock goes on by the
\* hour. The clock and both setInterval timers run whatever the senders do.
QuietTicks == 2

\* An inbound event arrives while the senders are still talking.
Talking == ticks < MaxTicks

\* The clock advances by an hour once the senders are silent.
TimePasses ==
  /\ ~Talking
  /\ ticks < MaxTicks + QuietTicks
  /\ inflight = <<>>
  /\ now' = now + STATE_TIMEOUT_MS
  /\ ticks' = ticks + 1
  /\ cleaned' = 0
  /\ UNCHANGED <<bot, userState, userSessions, outbox, finalized, inflight, base>>

NextAbandon ==
  \/ \E senderId \in Senders, event \in SweepEmergencyEvents :
       Talking /\ EmergencyReceive(senderId, event)
  \/ \E senderId \in Senders, in \in SweepPetInputs :
       Talking /\ PetReceive(senderId, in[1], in[2])
  \/ \E d \in TickSteps : Tick(d)
  \/ TimePasses
  \/ EmergencySweep
  \/ PetSweep

SpecAbandon ==
  /\ Init
  /\ [][NextAbandon]_vars
  /\ WF_vars(\E d \in TickSteps : Tick(d))
  /\ WF_vars(TimePasses)
  /\ WF_vars(EmergencySweep)
  /\ WF_vars(PetSweep)

\* =========================================================== properties
\* The fields of a pet-report session that hold what the sender has given.
PetCollected(session) ==
  <<session.pets, session.currentPet, session.contactName, session.contactNo,
    session.facebookAccount>>

\* C1: a sender has at most one session (the store is a map keyed by sender),
\* and a start event (help keyword, GET_STARTED postback, REPORT_YES quick
\* reply) for a sender that has a session keeps that session and the data it
\* has collected.
C1_StartKeepsExistingSession ==
  [][/\ \A event \in {Text(TxHelp), Postback("GET_STARTED")} :
          (Has(userState, "u1") /\ EmergencyReceive("u1", event))
            => /\ Has(userState', "u1")
               /\ userState'["u1"].emergencyData = userState["u1"].emergencyData
     /\ \A event \in {QuickReply("REPORT_YES"), Postback("GET_STARTED")} :
          (Has(userSessions, "u1") /\ PetReceive("u1", event, TRUE))
            => /\ Has(userSessions', "u1")
               /\ PetCollected(userSessions'["u1"]) = PetCollected(userSessions["u1"])]_vars

\* The emergency bot kept the collected data of a session that a start keyword
\* restarted.
C1_EmergencyKept ==
  /\ bot = "emergency"
  /\ outbox = <<"ASSISTANCE_TYPE_OPTIONS">>
  /\ Has(userState, "u1")
  /\ userState["u1"].state = "awaiting_assistance_type"
  /\ IsSome(userState["u1"].emergencyData.contactName)

\* C2: for a sender without a session, a message that is neither a start
\* keyword nor a start payload leaves the sender without a session, and only
\* the welcome prompt is sent.
C2_NoSessionFromOtherMessages ==
  [][/\ \A event \in EmergencyEvents :
          (/\ ~Has(userState, "u1")
           /\ event.kind = "message"
           /\ ~IsStartCommand(Trim(event.message.text))
           /\ ~IsCancelCommand(Trim(event.message.text))
           /\ EmergencyReceive("u1", event))
            => /\ ~Has(userState', "u1")
               /\ outbox' = <<"WELCOME_TYPE_HELP">>
     /\ \A event \in PetEvents \ {QuickReply("REPORT_YES")} :
          (/\ ~Has(userSessions, "u1")
           /\ event.kind = "message"
           /\ PetReceive("u1", event, TRUE))
            => /\ ~Has(userSessions', "u1")
               /\ (~IsSome(event.message.quick_reply) /\ event.message.attachments = <<>>)
                     => outbox' \in {<<>>, <<"WELCOME">>}]_vars

\* C3: in the emergency bot a message whose text holds a cancel or reset
\* keyword deletes the sender's session and sends exactly the cancellation
\* acknowledgment, whatever the step and whatever else the message holds.
C3_CancelAlwaysClears ==
  [][\A event \in EmergencyEvents :
       (/\ event.kind = "message"
        /\ IsCancelCommand(Trim(event.message.text))
        /\ EmergencyReceive("u1", event))
         => /\ ~Has(userState', "u1")
            /\ outbox' = <<"REQUEST_CANCELLED">>]_vars

\* The message reaches the step dispatch of handleMessage: no attachment branch
\* and no command keyword takes it first.
ReachesStep(us, senderId, event) ==
  /\ event.kind = "message"
  /\ Has(us, senderId)
  /\ ~(event.message.attachments # <<>>
        /\ event.message.attachments[1].type \in {"location", "image"})
  /\ ~IsStartCommand(Trim(event.message.text))
  /\ ~IsCancelCommand(Trim(event.message.text))

\* The validation of the sender's current step of the emergency bot fails.
EmergencyRejects(us, senderId, event) ==
  /\ ReachesStep(us, senderId, event)
  /\ LET text  == Trim(event.message.text)
         state == us[senderId].state
     IN  \/ state = "awaiting_assistance_type"
              /\ ~IsSome(SelectedType(text, event.message.quick_reply))
         \/ state = "awaiting_contact_name" /\ ~ValidContactName(text)
         \/ state = "awaiting_contact_number" /\ ~ValidContactNumber(text)
         \/ state = "awaiting_number_of_people" /\ ~ValidNumberOfPeople(text)
         \/ state = "awaiting_urgency_level" /\ ~ValidUrgencyLevel(text)

\* The validation of the sender's current step of the pet-report bot fails.
PetRejects(ss, senderId, event) ==
  /\ event.kind = "message"
  /\ ~IsSome(event.message.quick_reply)
  /\ event.message.attachments = <<>>
  /\ event.message.text # <<>>
  /\ Has(ss, senderId)
  /\ ToLowerCase(Trim(event.message.text)) # KwCancel
  /\ LET text == Trim(event.message.text)
         step == ss[senderId].currentStep
     IN  \/ step = "animal_type" /\ Len(text) < 2
         \/ step = "animal_name" /\ Len(text) < 1
         \/ step = "owner_name" /\ Len(text) < 2
         \/ step = "contact_no" /\ Len(RemoveSpacesAndDashes(text)) < 10
         \/ step = "last_seen" /\ Len(text) < 5
         \/ step = "image"
              /\ IF ToLowerCase(text) \in {KwDone, KwSkip}
                 THEN ~validateCurrentPet(ss[senderId].currentPet)
                 ELSE ~IsUrl(text)

\* The re-prompts of the validating steps.
RePrompts ==
  {"ASSISTANCE_TYPE_OPTIONS", "INVALID_NAME", "INVALID_PHONE_NUMBER",
   "INVALID_NUMBER_OF_PEOPLE", "ASK_URGENCY_LEVEL", "INVALID_ANIMAL_TYPE",
   "INVALID_ANIMAL_NAME", "INVALID_OWNER_NAME", "INVALID_LOCATION",
   "MISSING_REQUIRED_INFORMATION", "SEND_IMAGE_OR_DONE"}

\* C4: an input that the validation of the current step rejects leaves the
\* session as it was (same step, same collected fields, not deleted), and
\* exactly one message, the re-prompt, is sent.
C4_RejectedInputKeepsSession ==
  [][/\ \A event \in EmergencyEvents :
          (EmergencyRejects(userState, "u1", event) /\ EmergencyReceive("u1", event))
            => /\ userState' = userState
               /\ Len(outbox') = 1
               /\ outbox'[1] \in RePrompts
               /\ finalized' = <<>>
     /\ \A event \in PetEvents :
          (PetRejects(userSessions, "u1", event) /\ PetReceive("u1", event, TRUE))
            => /\ userSessions' = userSessions
               /\ Len(outbox') = 1
               /\ outbox'[1] \in RePrompts
               /\ finalized' = <<>>]_vars

\* A sender at the people-count step, with a contact number collected, has just
\* been re-prompted.
C4_RejectedAtPeopleCount ==
  /\ bot = "emergency"
  /\ Has(userState, "u1")
  /\ userState["u1"].state = "awaiting_number_of_people"
  /\ IsSome(userState["u1"].emergencyData.contactNumber)
  /\ outbox = <<"INVALID_NUMBER_OF_PEOPLE">>

\* The step a sender is on in the emergency bot; "none" without a session.
StepOf(us, senderId) == IF Has(us, senderId) THEN us[senderId].state ELSE "none"

\* The edges of the step graph: the entry, the collection chain with the
\* yes/no loop-back, and the end of a session (completion or cancellation)
\* from any step.
StepEdges ==
  {<<"none", "awaiting_assistance_type">>,
   <<"awaiting_assistance_type", "awaiting_more_assistance">>,
   <<"awaiting_more_assistance", "awaiting_assistance_type">>,
   <<"awaiting_more_assistance", "awaiting_contact_name">>,
   <<"awaiting_contact_name", "awaiting_contact_number">>,
   <<"awaiting_contact_number", "awaiting_number_of_people">>,
   <<"awaiting_number_of_people", "awaiting_urgency_level">>,
   <<"awaiting_urgency_level", "awaiting_location">>,
   <<"awaiting_location", "awaiting_verification_doc">>,
   <<"awaiting_verification_doc", "awaiting_additional_info">>}
  \cup {<<s, "none">> : s \in EStates}

\* C5: in the emergency bot every change of the step of a sender who is
\* inside the collection chain follows an edge of the step graph, so no
\* collection step is skipped. (A return to the entry step or to "start" is
\* let through here: it skips nothing.)
C5_NoCollectionStepSkipped ==
  [][(/\ bot = "emergency"
      /\ StepOf(userState, "u1") \notin {"none", "start"}
      /\ StepOf(userState', "u1") # StepOf(userState, "u1"))
       => \/ <<StepOf(userState, "u1"), StepOf(userState', "u1")>> \in StepEdges
          \/ StepOf(userState', "u1") \in {"awaiting_assistance_type", "start"}]_vars

\* C7: one run of cleanupOldStates deletes exactly the sessions whose
\* timestamp of last activity lies more than one hour before now, and leaves
\* every other session as it was.
C7_SweepDeletesExactlyExpired ==
  [][EmergencySweep =>
       userState' = [k \in {x \in DOMAIN userState :
                             ~(userState[x].timestamp + 60 * 60 * 1000 < now)}
                       |-> userState[k]]]_vars

\* A sweep has just removed one sender's session and kept the other's.
C7_SweptOneOfTwo ==
  /\ bot = "emergency"
  /\ cleaned = 1
  /\ Cardinality(DOMAIN userState) = 1

\* C8: a session that an inbound event has just changed (and not deleted)
\* survives a sweep that runs immediately afterwards, in both bots, however
\* long ago the session was created.
C8_JustMutatedSurvivesSweep ==
  [][\A s \in Senders :
       /\ (/\ Has(userState', s)
           /\ (~Has(userState, s) \/ userState'[s] # userState[s]))
            => Has(cleanupOldStates(userState', now'), s)
       /\ (/\ Has(userSessions', s)
           /\ (~Has(userSessions, s) \/ userSessions'[s] # userSessions[s]))
            => Has(PetCleanup(userSessions', now'), s)]_vars

\* C10: in the emergency bot a sender at the final step (additional info) who
\* sends "skip" or any other text gets the request finalized, the completion
\* message, and the session deleted. (Texts with a cancel keyword are left
\* out: they end the session without a submission.)
C10_FinalStepTextFinalizes ==
  [][\A event \in EmergencyEvents :
       (/\ event.kind = "message"
        /\ event.message.attachments = <<>>
        /\ ~IsCancelCommand(Trim(event.message.text))
        /\ StepOf(userState, "u1") = "awaiting_additional_info"
        /\ EmergencyReceive("u1", event))
         => /\ ~Has(userState', "u1")
            /\ outbox' = <<"REQUEST_SUBMITTED">>
            /\ Len(finalized') = 1]_vars

\* The positions at which a handler of the pet-report bot is suspended after
\* it has read the session and before its last write of it.
MidTransition == {"delete", "ask_more", "posted", "submitted"}

\* C9: while a handler for a sender is suspended between its first read and
\* its last write of the sender's session, no step of anything else (the
\* sweep) removes that session.
C9_SweepSparesSessionInTransition ==
  [][\A i \in 1..Len(inflight) :
       (/\ bot = "pet"
        /\ inflight' = inflight
        /\ inflight[i].pc \in MidTransition
        /\ Has(userSessions, inflight[i].senderId))
         => Has(userSessions', inflight[i].senderId)]_vars

\* The elements of a sequence.
Range(seq) == {seq[i] : i \in 1..Len(seq)}

\* The store and the finalized reports after the handlers in flight at
\* positions i and j have run one after the other from the store at arrival.
SerialOutcome(i, j) ==
  IF bot = "pet"
  THEN LET c1 == PetRun([ss |-> base, msgs |-> <<>>, fin |-> <<>>], inflight[i].senderId,
                        inflight[i].event, inflight[i].postOk, "start", now)
           c2 == PetRun(c1, inflight[j].senderId, inflight[j].event, inflight[j].postOk,
                        "start", now)
       IN  <<c2.ss, Range(c2.fin)>>
  ELSE LET r1 == EmergencyEvent(base, inflight[i].senderId, inflight[i].event, now)
           r2 == EmergencyEvent(r1.us, inflight[j].senderId, inflight[j].event, now)
       IN  <<r2.us, Range(r1.fin \o r2.fin)>>

\* C6: when two handlers for one sender have interleaved at their awaits and
\* both have ended, the store and the set of finalized reports are those of
\* handling the two events one after the other in one of the two orders.
C6_ConcurrentPairSerializable ==
  (Len(inflight) = 2 /\ \A i \in 1..2 : inflight[i].pc = "done")
    => <<IF bot = "pet" THEN userSessions ELSE userState, Range(finalized)>>
         \in {SerialOutcome(1, 2), SerialOutcome(2, 1)}

\* The collected data of an emergency session holds nothing yet.
EmptyCollected(data) ==
  /\ data.requiredAssistance = <<>>
  /\ \A f \in {"location", "locationCoords", "contactName", "contactNumber",
               "numberOfPeople", "urgencyLevel", "verificationDoc", "additionalInfo"} :
       data[f] = Undefined

\* The message is a text with a start keyword that no attachment branch takes
\* first.
IsStartText(event) ==
  /\ event.kind = "message"
  /\ ~(event.message.attachments # <<>>
        /\ event.message.attachments[1].type \in {"location", "image"})
  /\ IsStartCommand(Trim(event.message.text))

\* C11: in the emergency bot a text with a start/help keyword from a sender
\* without a session creates a session at the entry step (awaiting assistance
\* type) with empty collected data, and the assistance-type prompt is sent.
C11_StartCreatesSessionAtEntry ==
  [][\A event \in EmergencyEvents :
       (/\ ~Has(userState, "u1")
        /\ IsStartText(event)
        /\ EmergencyReceive("u1", event))
         => /\ Has(userState', "u1")
            /\ userState'["u1"].state = "awaiting_assistance_type"
            /\ EmptyCollected(userState'["u1"].emergencyData)
            /\ outbox' = <<"ASSISTANCE_TYPE_OPTIONS">>]_vars

\* A session with nothing collected stands at the entry step and the
\* assistance-type prompt is the one message just sent.
C11_SessionStartedAtEntry ==
  /\ bot = "emergency"
  /\ outbox = <<"ASSISTANCE_TYPE_OPTIONS">>
  /\ Has(userState, "u1")
  /\ userState["u1"].state = "awaiting_assistance_type"
  /\ EmptyCollected(userState["u1"].emergencyData)
  /\ finalized = <<>>

\* The collection steps of the emergency bot after the entry step.
LaterSteps == EStates \ {"start", "awaiting_assistance_type"}

\* C12: in the emergency bot a text with a start/help keyword from a sender
\* whose session is at a collection step past the entry step is not taken as
\* a restart: the session is not moved back to the entry step.
C12_StartKeywordMidFlowNoRestart ==
  [][\A event \in EmergencyEvents :
       (/\ StepOf(userState, "u1") \in LaterSteps
        /\ IsStartText(event)
        /\ EmergencyReceive("u1", event))
         => StepOf(userState', "u1") # "awaiting_assistance_type"]_vars

\* The message is the text "skip" in any letter case, with no attachment.
IsSkipText(event) ==
  /\ event.kind = "message"
  /\ event.message.attachments = <<>>
  /\ ToLowerCase(Trim(event.message.text)) = KwSkip

\* C13: in the emergency bot the text "skip" (any letter case) at an optional
\* step is accepted: at the verification-document step the session moves on
\* to the additional-info step with no document written; at the
\* additional-info step the request is finalized with no additional info
\* written and the session ends.
C13_SkipAcceptedAtOptionalSteps ==
  [][\A event \in EmergencyEvents :
       /\ (/\ StepOf(userState, "u1") = "awaiting_verification_doc"
           /\ IsSkipText(event)
           /\ EmergencyReceive("u1", event))
            => /\ StepOf(userState', "u1") = "awaiting_additional_info"
               /\ userState'["u1"].emergencyData.verificationDoc
                    = userState["u1"].emergencyData.verificationDoc
       /\ (/\ StepOf(userState, "u1") = "awaiting_additional_info"
           /\ IsSkipText(event)
           /\ EmergencyReceive("u1", event))
            => /\ ~Has(userState', "u1")
               /\ finalized' = <<userState["u1"].emergencyData>>
               /\ outbox' = <<"REQUEST_SUBMITTED">>]_vars

\* The step and the collected data of a sender in the emergency bot; the empty
\* tuple without a session.
StepAndData(us, senderId) ==
  IF Has(us, senderId) THEN <<us[senderId].state, us[senderId].emergencyData>> ELSE <<>>

\* The first attachment of the message is a location with coordinates.
IsLocationMessage(event) ==
  /\ event.kind = "message"
  /\ event.message.attachments # <<>>
  /\ event.message.attachments[1].type = "location"
  /\ IsSome(event.message.attachments[1].coordinates)

\* C14: in the emergency bot a location attachment is taken only at the
\* location step, where it writes the location and advances the step; at any
\* other step, and without a session, it changes neither the step nor the
\* collected data.
C14_LocationOnlyAtLocationStep ==
  [][\A event \in EmergencyEvents :
       (IsLocationMessage(event) /\ EmergencyReceive("u1", event))
         => IF StepOf(userState, "u1") = "awaiting_location"
            THEN /\ StepOf(userState', "u1") = "awaiting_verification_doc"
                 /\ IsSome(userState'["u1"].emergencyData.locationCoords)
                 /\ IsSome(userState'["u1"].emergencyData.location)
            ELSE StepAndData(userState', "u1") = StepAndData(userState, "u1")]_vars

\* The first attachment of the message is an image.
IsImageMessage(event) ==
  /\ event.kind = "message"
  /\ event.message.attachments # <<>>
  /\ event.message.attachments[1].type = "image"

\* C15: an image attachment is stored only at the step that expects it. In the
\* emergency bot at the verification-document step it is written as the
\* document and the step advances; in the pet-report bot at the image step its
\* URL joins the current pet's images. At any other step, and without a
\* session, one acknowledgment is sent and the store stays as it was.
C15_ImageOnlyAtExpectedStep ==
  [][/\ \A event \in EmergencyEvents :
          (IsImageMessage(event) /\ EmergencyReceive("u1", event))
            => IF StepOf(userState, "u1") = "awaiting_verification_doc"
               THEN /\ StepOf(userState', "u1") = "awaiting_additional_info"
                    /\ userState'["u1"].emergencyData =
                         [userState["u1"].emergencyData
                            EXCEPT !.verificationDoc = event.message.attachments[1].url]
               ELSE /\ userState' = userState
                    /\ outbox' = <<"IMAGE_RECEIVED_TYPE_HELP">>
     /\ \A event \in PetEvents :
          (/\ IsImageMessage(event)
           /\ ~IsSome(event.message.quick_reply)
           /\ PetReceive("u1", event, TRUE))
            => IF Has(userSessions, "u1") /\ userSessions["u1"].currentStep = "image"
               THEN /\ userSessions'["u1"].currentStep = "image"
                    /\ userSessions'["u1"].currentPet.imageUrls =
                         Append(userSessions["u1"].currentPet.imageUrls,
                                Val(event.message.attachments[1].url))
               ELSE /\ userSessions' = userSessions
                    /\ outbox' = <<"WAIT_FOR_PHOTO_REQUEST">>]_vars

\* A sender of the emergency bot with a contact name collected sent an image
\* at the contact-number step and got the acknowledgment.
C15_ImageAcknowledgedMidFlow ==
  /\ bot = "emergency"
  /\ StepOf(userState, "u1") = "awaiting_contact_number"
  /\ IsSome(userState["u1"].emergencyData.contactName)
  /\ outbox = <<"IMAGE_RECEIVED_TYPE_HELP">>

\* C16: for a sender without a session the update operations of the store
\* (setState, updateEmergencyData, addAssistanceType; updateUserSession) change
\* nothing: they create no session and leave the other senders' sessions as
\* they are.
C16_UpdatesNoOpWithoutSession ==
  \A s \in Senders :
    /\ (bot = "emergency" /\ ~Has(userState, s))
         => /\ \A state \in EStates : setState(userState, s, state, now) = userState
            /\ updateEmergencyData(userState, s, [contactName |-> Some(TxA)]) = userState
            /\ addAssistanceType(userState, s, TxFood) = userState
    /\ (bot = "pet" /\ ~Has(userSessions, s))
         => updateUserSession(userSessions, s, [currentStep |-> "ask_more"], now) = userSessions

\* C17: a session that comes into existence is at the entry step with nothing
\* collected: awaiting_assistance_type in the emergency bot (the step "start"
\* of the GET_STARTED postback is let through here), animal_type in the
\* pet-report bot.
C17_NewSessionAtEntryStep ==
  [][/\ (~Has(userState, "u1") /\ Has(userState', "u1"))
          => /\ userState'["u1"].state \in {"awaiting_assistance_type", "start"}
             /\ EmptyCollected(userState'["u1"].emergencyData)
     /\ (~Has(userSessions, "u1") /\ Has(userSessions', "u1"))
          => /\ userSessions'["u1"].currentStep = "animal_type"
             /\ PetCollected(userSessions'["u1"]) = PetCollected(NewSession(now))]_vars

\* C18: cancelling is idempotent. A cancel text from a sender without a
\* session raises no error and leaves the store as it is; a cancel text from a
\* sender with a session deletes it, and handling the same cancel once more
\* from the store it left gives that store again.
C18_CancelIdempotent ==
  [][/\ EmergencyReceive("u1", Text(TxCancel))
          => /\ ~Has(userState, "u1") => userState' = userState
             /\ ~Has(userState', "u1")
             /\ outbox' = <<"REQUEST_CANCELLED">>
             /\ EmergencyEvent(userState', "u1", Text(TxCancel), now').us = userState'
     /\ PetReceive("u1", Text(TxCancelUpper), TRUE)
          => /\ ~Has(userSessions, "u1") => userSessions' = userSessions
             /\ ~Has(userSessions', "u1")
             /\ outbox' \in {<<"CANCEL">>, <<"WELCOME">>}
             /\ PetRun([ss |-> userSessions', msgs |-> <<>>, fin |-> <<>>], "u1",
                       Text(TxCancelUpper), TRUE, "start", now').ss = userSessions']_vars

\* A cancel text was acknowledged and the store holds no session.
C18_CancelledWithoutSession ==
  /\ bot = "emergency"
  /\ userState = <<>>
  /\ outbox = <<"REQUEST_CANCELLED">>

\* C19: the store and the finalized requests after an event are the same
\* whether each outbound send of its handler succeeds or fails, and no send
\* failure throws out of the handler: in every state either bot reaches, the
\* outcome of handling any event with any send outcomes is that of handling it
\* with every send succeeding.
C19_SendFailureKeepsSessionState ==
  /\ bot = "emergency" =>
       \A event \in SendEmergencyEvents, sends \in SendOutcomes :
         /\ EmergencyHandlerSending(userState, "u1", event, sends, now).us
              = EmergencyHandlerSending(userState, "u1", event, AllSent, now).us
         /\ EmergencyHandlerSending(userState, "u1", event, sends, now).fin
              = EmergencyHandlerSending(userState, "u1", event, AllSent, now).fin
         /\ EmergencyHandlerSending(userState, "u1", event, sends, now).threw
              = EmergencyHandlerSending(userState, "u1", event, AllSent, now).threw
  /\ bot = "pet" =>
       \A in \in SendPetInputs, failed \in PetSendFailures :
         /\ PetEventSending(userSessions, "u1", in[1], in[2], failed, now).ss
              = PetEventSending(userSessions, "u1", in[1], in[2], {}, now).ss
         /\ PetEventSending(userSessions, "u1", in[1], in[2], failed, now).fin
              = PetEventSending(userSessions, "u1", in[1], in[2], {}, now).fin
         /\ ~PetEventSending(userSessions, "u1", in[1], in[2], failed, now).threw

\* Witness: the pet-report bot's submission was saved and its session deleted
\* although none of the handler's messages went out.
C19_SubmittedWithEverySendFailing ==
  /\ bot = "pet"
  /\ ~Has(userSessions, "u1")
  /\ finalized # <<>>
  /\ outbox # <<>>
  /\ \A i \in DOMAIN outbox : outbox[i] = "UNDELIVERED"

\* The positions of the events of a batch that carry a sender id.
RECURSIVE WithSender(_, _)
WithSender(events, i) ==
  IF i > Len(events) THEN <<>>
  ELSE IF IsSome(events[i].sender) THEN <<i>> \o WithSender(events, i + 1)
  ELSE WithSender(events, i + 1)

\* C20: within one batch, the events without a sender id are skipped and every
\* other event is given to its handler, whatever the handlers before it did:
\* in every state either bot reaches, the events handled of any batch are
\* exactly those with a sender id.
C20_BatchEventsAllProcessed ==
  /\ bot = "emergency" =>
       \A events \in Batches(BatchEmergencyEntries) :
         EmergencyBatchLoop(Batch(userState, <<>>, <<>>, <<>>), events, 1, now).handled
           = WithSender(events, 1)
  /\ bot = "pet" =>
       \A events \in Batches(BatchPetEntries) :
         PetBatchLoop(Batch(userSessions, <<>>, <<>>, <<>>), events, 1, now).handled
           = WithSender(events, 1)

\* A message without attachments whose text is an urgency level the step accepts.
IsUrgencySelection(event) ==
  /\ event.kind = "message"
  /\ event.message.attachments = <<>>
  /\ ValidUrgencyLevel(Trim(event.message.text))

\* C21: a sender at the urgency step who sends an accepted urgency selection
\* gets urgencyLevel set to the upper-case label, the step becomes the
\* people-count step and the people-count prompt is sent.
C21_UrgencyAdvancesToPeopleCount ==
  [][\A event \in EmergencyEvents :
       (/\ Has(userState, "u1")
        /\ userState["u1"].state = "awaiting_urgency_level"
        /\ IsUrgencySelection(event)
        /\ EmergencyReceive("u1", event))
         => /\ Has(userState', "u1")
            /\ userState'["u1"].emergencyData.urgencyLevel
                 = Some(ToUpperCase(Trim(event.message.text)))
            /\ userState'["u1"].state = "awaiting_number_of_people"
            /\ outbox' = <<"ASK_NUMBER_OF_PEOPLE">>]_vars

\* The whole text is a decimal integer greater than 0.
IsPositiveInteger(text) ==
  /\ text # <<>>
  /\ \A i \in 1..Len(text) : IsDigit(text[i])
  /\ DecimalValue(text) > 0

\* C22: at the people-count step a text that is not, as a whole, an integer
\* greater than 0 is rejected: the session is unchanged (the step stays and
\* numberOfPeople is not written) and the people-count warning is sent.
C22_PeopleCountOnlyWholePositiveInteger ==
  [][\A event \in PeopleEmergencyEvents :
       (/\ Has(userState, "u1")
        /\ userState["u1"].state = "awaiting_number_of_people"
        /\ ~IsPositiveInteger(Trim(event.message.text))
        /\ ~IsStartCommand(event.message.text)
        /\ ~IsCancelCommand(event.message.text)
        /\ EmergencyReceive("u1", event))
         => /\ userState' = userState
            /\ outbox' = <<"INVALID_NUMBER_OF_PEOPLE">>]_vars

\* The upper-case quick-reply payload of a message ("" without one).
PayloadOf(event) ==
  IF IsSome(event.message.quick_reply) THEN ToUpperCase(Val(event.message.quick_reply))
  ELSE <<>>

\* The member of the allowed set that the payload or the typed text of a
\* message names, if any.
OptionOf(event, allowed) ==
  IF Contains(allowed, PayloadOf(event)) THEN Some(PayloadOf(event))
  ELSE IF Contains(allowed, ToUpperCase(Trim(event.message.text)))
  THEN Some(ToUpperCase(Trim(event.message.text)))
  ELSE Undefined

\* The outcome of the emergency bot handling event for u1 in the current state.
Outcome(event) == EmergencyEvent(userState, "u1", event, now)

\* C23: at the assistance-type and urgency steps a message is accepted exactly
\* when its quick-reply payload or its typed text names, in any case, a member
\* of the step's allowed set; the option is stored and the step advances the
\* same way for both forms, and every other message leaves the session
\* unchanged and gets the option list again.
C23_EnumeratedStepsAcceptPayloadOrText ==
  \A event \in EnumEmergencyEvents :
    (/\ bot = "emergency"
     /\ Has(userState, "u1")
     /\ ~IsStartCommand(event.message.text)
     /\ ~IsCancelCommand(event.message.text))
      => /\ userState["u1"].state = "awaiting_assistance_type"
              => IF IsSome(OptionOf(event, validTypes))
                 THEN /\ Has(Outcome(event).us, "u1")
                      /\ Outcome(event).us["u1"].state = "awaiting_more_assistance"
                      /\ Contains(Outcome(event).us["u1"].emergencyData.requiredAssistance,
                                  Capitalize(Val(OptionOf(event, validTypes))))
                 ELSE /\ Outcome(event).us = userState
                      /\ Outcome(event).msgs = <<"ASSISTANCE_TYPE_OPTIONS">>
         /\ userState["u1"].state = "awaiting_urgency_level"
              => IF IsSome(OptionOf(event, levels))
                 THEN /\ Has(Outcome(event).us, "u1")
                      /\ Outcome(event).us["u1"].state = "awaiting_location"
                      /\ Outcome(event).us["u1"].emergencyData.urgencyLevel
                           = OptionOf(event, levels)
                 ELSE /\ Outcome(event).us = userState
                      /\ Outcome(event).msgs = <<"ASK_URGENCY_LEVEL">>

\* A message that carries only typed text.
IsPlainText(event) ==
  /\ event.kind = "message"
  /\ ~IsSome(event.message.quick_reply)
  /\ event.message.attachments = <<>>
  /\ event.message.text # <<>>

\* The store of the pet-report bot after it handled event for u1 in the
\* current state.
PetOutcome(event) ==
  PetRun([ss |-> userSessions, msgs |-> <<>>, fin |-> <<>>], "u1", event, TRUE, "start", now)

\* C24: at the contact-number step of either bot a typed text that does not
\* match the bot's phone-number pattern is rejected: the session is left as it
\* was (no contact number stored, same step).
C24_InvalidPhoneNumberRejected ==
  /\ (bot = "emergency" /\ Has(userState, "u1")
        /\ userState["u1"].state = "awaiting_contact_number")
       => \A event \in EmergencyEvents :
            (/\ IsPlainText(event)
             /\ ~IsStartCommand(event.message.text)
             /\ ~IsCancelCommand(event.message.text)
             /\ ~ValidContactNumber(Trim(event.message.text)))
              => Outcome(event).us = userState
  /\ (bot = "pet" /\ Has(userSessions, "u1")
        /\ userSessions["u1"].currentStep = "contact_no")
       => \A event \in PetEvents :
            (/\ IsPlainText(event)
             /\ ToLowerCase(Trim(event.message.text)) # KwCancel
             /\ ~isValidPhoneNumber(Trim(event.message.text)))
              => PetOutcome(event).ss = userSessions

\* Every field a request needs is set: at least one assistance type, contact
\* name, contact number, number of people, urgency level and location.
IsCompleteRequest(data) ==
  /\ data.requiredAssistance # <<>>
  /\ IsSome(data.contactName)
  /\ IsSome(data.contactNumber)
  /\ IsSome(data.numberOfPeople)
  /\ IsSome(data.urgencyLevel)
  /\ IsSome(data.location)

\* C25: the collected data that finalizeEmergencyRequest consumes is complete.
C25_FinalizedRequestComplete ==
  bot = "emergency" => \A i \in DOMAIN finalized : IsCompleteRequest(finalized[i])

\* An event that moves a session of the emergency bot on from the given step.
EmergencyWayOn(state) ==
  CASE state = "start" -> Text(TxHelp)
    [] state = "awaiting_assistance_type" -> Text(TxFood)
    [] state = "awaiting_more_assistance" -> Text(TxA)
    [] state = "awaiting_contact_name" -> Text(TxYes)
    [] state = "awaiting_contact_number" -> Text(TxPhone)
    [] state = "awaiting_number_of_people" -> Text(TxPhone)
    [] state = "awaiting_urgency_level" -> Text(TxHigh)
    [] state = "awaiting_location" -> Message(<<>>, Undefined, <<LocationAttachment>>)
    [] state = "awaiting_verification_doc" -> Message(<<>>, Undefined, <<ImageAttachment>>)
    [] OTHER -> Text(TxSkip)

\* The store after u1 sent the event that moves its session on.
EmergencyOn(us, t) == EmergencyEvent(us, "u1", EmergencyWayOn(us["u1"].state), t)

\* Within n such events the session of u1 is finalized.
RECURSIVE EmergencyFinishes(_, _, _)
EmergencyFinishes(us, n, t) ==
  /\ n > 0
  /\ Has(us, "u1")
  /\ \/ EmergencyOn(us, t).fin # <<>>
     \/ EmergencyFinishes(EmergencyOn(us, t).us, n - 1, t)

\* The steps the session of u1 is at over n such events.
RECURSIVE EmergencySteps(_, _, _)
EmergencySteps(us, n, t) ==
  IF n = 0 \/ ~Has(us, "u1") THEN {}
  ELSE {us["u1"].state} \cup EmergencySteps(EmergencyOn(us, t).us, n - 1, t)

\* An event that moves a session of the pet-report bot on from the given step.
PetWayOn(step) ==
  CASE step \in {"animal_type", "animal_name", "owner_name", "contact_no", "last_seen"} ->
         Text(TxUrl)
    [] step \in {"facebook_account", "image"} -> Text(TxSkip)
    [] OTHER -> QuickReply("ADD_MORE_NO")

PetOn(ss, t) ==
  PetRun([ss |-> ss, msgs |-> <<>>, fin |-> <<>>], "u1", PetWayOn(ss["u1"].currentStep),
         TRUE, "start", t)

RECURSIVE PetFinishes(_, _, _)
PetFinishes(ss, n, t) ==
  /\ n > 0
  /\ Has(ss, "u1")
  /\ \/ PetOn(ss, t).fin # <<>>
     \/ PetFinishes(PetOn(ss, t).ss, n - 1, t)

RECURSIVE PetStepsOn(_, _, _)
PetStepsOn(ss, n, t) ==
  IF n = 0 \/ ~Has(ss, "u1") THEN {}
  ELSE {ss["u1"].currentStep} \cup PetStepsOn(PetOn(ss, t).ss, n - 1, t)

\* The steps at which the bots start a session.
EmergencyEntrySteps == {"start", "awaiting_assistance_type"}

\* C26: in both bots a session starts only at the entry step, every named
\* step is reached from it by some sequence of events, from every step a
\* session is at some sequence of events reaches finalization (submission),
\* and the step of a session is always one of the named steps.
C26_StepGraphWellFormed ==
  /\ bot = "emergency" =>
       /\ \A k \in DOMAIN userState : userState[k].state \in EStates
       /\ ~Has(userState, "u1") =>
            \A event \in EmergencyEvents :
              Has(Outcome(event).us, "u1")
                => Outcome(event).us["u1"].state \in EmergencyEntrySteps
       /\ EmergencySteps(handlePostback(<<>>, "u1", Postback("GET_STARTED").postback, now).us,
                         Cardinality(EStates), now) = EStates
       /\ Has(userState, "u1") => EmergencyFinishes(userState, Cardinality(EStates), now)
  /\ bot = "pet" =>
       /\ \A k \in DOMAIN userSessions : userSessions[k].currentStep \in PSteps
       /\ ~Has(userSessions, "u1") =>
            \A event \in PetEvents :
              Has(PetOutcome(event).ss, "u1")
                => PetOutcome(event).ss["u1"].currentStep = "animal_type"
       /\ PetStepsOn(PetOutcome(QuickReply("REPORT_YES")).ss, Cardinality(PSteps), now) = PSteps
       /\ Has(userSessions, "u1") => PetFinishes(userSessions, Cardinality(PSteps), now)

\* The two stores agree on sender k: its session is absent in both, or the
\* same in both.
SameSession(s1, s2, k) ==
  /\ Has(s1, k) <=> Has(s2, k)
  /\ Has(s1, k) => s1[k] = s2[k]

\* C27: sessions of different senders are independent: in every state either
\* bot reaches, handling any event of one sender leaves the session of the
\* other sender as it was, and neither creates nor deletes it.
C27_OtherSendersSessionUntouched ==
  \A a \in Senders : \A b \in Senders \ {a} :
    /\ bot = "emergency" =>
         \A event \in TwoEmergencyEvents :
           SameSession(EmergencyEvent(userState, a, event, now).us, userState, b)
    /\ bot = "pet" =>
         \A in \in TwoPetInputs :
           SameSession(PetRun([ss |-> userSessions, msgs |-> <<>>, fin |-> <<>>],
                              a, in[1], in[2], "start", now).ss,
                       userSessions, b)

\* Witness: the request of one sender was just finalized and its session
\* deleted while the other sender is in the middle of its own request.
C27_FinalizedBesideOpenSession ==
  /\ bot = "emergency"
  /\ finalized # <<>>
  /\ ~Has(userState, "u1")
  /\ Has(userState, "u2")
  /\ userState["u2"].state = "awaiting_more_assistance"
  /\ userState["u2"].emergencyData.requiredAssistance # <<>>

TxAddress == <<"1","2"," ","E","l","m"," ","R","o","a","d">>

\* C28: a sender at the location step who types an address has the text
\* stored as the location and the step advanced to the verification-document
\* step.
C28_TypedAddressStoredAsLocation ==
  (bot = "emergency" /\ Has(userState, "u1") /\ userState["u1"].state = "awaiting_location")
    => /\ Has(Outcome(Text(TxAddress)).us, "u1")
       /\ Outcome(Text(TxAddress)).us["u1"].state = "awaiting_verification_doc"
       /\ Outcome(Text(TxAddress)).us["u1"].emergencyData.location = Some(TxAddress)

\* The steps that ask for the owner details.
OwnerSteps == {"owner_name", "contact_no", "facebook_account"}

\* C29: owner details are asked only for the first pet: a valid animal name
\* moves the step to owner_name exactly when no pet is saved and no contact
\* name is stored, and to last_seen otherwise; and once a pet is saved or a
\* contact name is stored, no event brings a session that has left the owner
\* steps back to them.
C29_OwnerDetailsOnlyForFirstPet ==
  (bot = "pet" /\ Has(userSessions, "u1")) =>
    \A event \in PetEvents :
      /\ (/\ userSessions["u1"].currentStep = "animal_name"
          /\ IsPlainText(event)
          /\ Trim(event.message.text) # <<>>
          /\ ToLowerCase(Trim(event.message.text)) # KwCancel)
           => /\ Has(PetOutcome(event).ss, "u1")
              /\ PetOutcome(event).ss["u1"].currentStep
                   = IF /\ userSessions["u1"].pets = <<>>
                        /\ ~Truthy(userSessions["u1"].contactName)
                     THEN "owner_name"
                     ELSE "last_seen"
      /\ (/\ userSessions["u1"].currentStep \notin OwnerSteps
          /\ \/ userSessions["u1"].pets # <<>>
             \/ Truthy(userSessions["u1"].contactName)
          /\ Has(PetOutcome(event).ss, "u1"))
           => PetOutcome(event).ss["u1"].currentStep \notin OwnerSteps

\* Witness: with one pet saved, the name of the next pet was just accepted and
\* the bot went on to ask where it was last seen.
C29_SecondPetSkipsOwnerSteps ==
  /\ bot = "pet"
  /\ Has(userSessions, "u1")
  /\ Len(userSessions["u1"].pets) = 1
  /\ userSessions["u1"].currentStep = "last_seen"
  /\ Truthy(userSessions["u1"].currentPet.animalName)
  /\ ~Truthy(userSessions["u1"].currentPet.lastSeenLocation)
  /\ outbox = <<"ASK_LOCATION">>

\* The quick-reply payloads the pet-report bot is sent.
QuickReplyPayloads == {"REPORT_YES", "REPORT_NO", "ADD_MORE_YES", "ADD_MORE_NO", "OTHER"}

\* C30: a session of the pet-report bot yields at most one saved report: while
\* handlers of one sender interleave, at most one report is saved, and as long
\* as the session is flagged isProcessing every quick reply of the sender is
\* ignored (nothing written, sent or saved).
C30_AtMostOneSubmission ==
  bot = "pet" =>
    /\ Len(finalized) <= 1
    /\ (Has(userSessions, "u1") /\ userSessions["u1"].isProcessing)
         => \A payload \in QuickReplyPayloads :
              handleQuickReply(userSessions, "u1", payload, now)
                = Seg(userSessions, <<>>, <<>>, "done")

\* Witness: a submission is waiting for its post while a second ADD_MORE_NO of
\* the same sender has run and ended without a second report.
C30_SecondSubmissionIgnored ==
  /\ bot = "pet"
  /\ Len(inflight) = 2
  /\ inflight[1].event = QuickReply("ADD_MORE_NO")
  /\ inflight[2].event = QuickReply("ADD_MORE_NO")
  /\ inflight[1].pc = "posted"
  /\ inflight[2].pc = "done"
  /\ Has(userSessions, "u1")
  /\ userSessions["u1"].isProcessing
  /\ Len(finalized) = 1

\* A pet whose animal type, animal name and last-seen location are all set
\* and not empty.
IsCompletePet(pet) ==
  /\ IsSome(pet.animalType) /\ Len(Val(pet.animalType)) > 0
  /\ IsSome(pet.animalName) /\ Len(Val(pet.animalName)) > 0
  /\ IsSome(pet.lastSeenLocation) /\ Len(Val(pet.lastSeenLocation)) > 0

\* C31: in the pet-report bot every report handed to saveReportToFile holds at
\* least one pet, and in every reachable state every pet of every session's
\* pets list has a non-empty animal type, animal name and last-seen location.
C31_SavedAndListedPetsComplete ==
  bot = "pet" =>
    /\ \A i \in 1..Len(finalized) :
         /\ Len(finalized[i].pets) >= 1
         /\ \A j \in 1..Len(finalized[i].pets) : IsCompletePet(finalized[i].pets[j])
    /\ \A k \in DOMAIN userSessions :
         \A j \in 1..Len(userSessions[k].pets) : IsCompletePet(userSessions[k].pets[j])

\* Witness: a report with a pet was saved after ADD_MORE_NO.
C31_ReportWithPetSaved ==
  /\ bot = "pet"
  /\ Len(finalized) = 1
  /\ Len(finalized[1].pets) = 1
  /\ IsCompletePet(finalized[1].pets[1])

\* C32: in the pet-report bot every report handed to saveReportToFile has the
\* owner's contact name and contact number set, whatever sequence of text,
\* quick-reply and attachment events the sender sent.
C32_SavedReportHasOwnerContact ==
  bot = "pet" =>
    \A i \in 1..Len(finalized) :
      /\ IsSome(finalized[i].contactName)
      /\ IsSome(finalized[i].contactNo)

\* The six assistance types as the sender is shown them.
AssistanceNames ==
  { <<"F","o","o","d">>, <<"W","a","t","e","r">>, <<"M","e","d","i","c","a","l">>,
    <<"S","h","e","l","t","e","r">>, <<"C","l","o","t","h","i","n","g">>,
    <<"O","t","h","e","r">> }

\* C33: in the emergency bot every session's requiredAssistance list holds no
\* entry twice and only the capitalized forms of the six allowed types, in
\* every reachable state, however often the assistance-type step is revisited.
C33_RequiredAssistanceDistinctAndAllowed ==
  bot = "emergency" =>
    \A k \in DOMAIN userState :
      LET list == userState[k].emergencyData.requiredAssistance
      IN  /\ \A i \in 1..Len(list) : list[i] \in AssistanceNames
          /\ \A i, j \in 1..Len(list) : list[i] = list[j] => i = j

\* Witness: after the loop-back a second type was added and the session is
\* asked once more whether more is needed.
C33_TwoTypesAfterLoopBack ==
  /\ bot = "emergency"
  /\ Has(userState, "u1")
  /\ userState["u1"].state = "awaiting_more_assistance"
  /\ userState["u1"].emergencyData.requiredAssistance
       = << <<"F","o","o","d">>, <<"W","a","t","e","r">> >>

\* The sender has a session in the store of the bot that runs.
Stored(k) == Has(userState, k) \/ Has(userSessions, k)

\* C34: with the sweep firing and time advancing fairly, a session whose
\* sender has fallen silent is eventually removed from the store, in the
\* emergency bot and in the pet-report bot: no abandoned session stays stored
\* forever.
C34_AbandonedSessionEventuallyRemoved ==
  \A k \in Senders : (~Talking /\ Stored(k)) ~> ~Stored(k)

\* Witness: after the senders fell silent and more than the timeout passed,
\* the sweep has just removed a session and the store is empty.
C34_AbandonedSessionSwept ==
  /\ ~Talking
  /\ cleaned >= 1
  /\ \A k \in Senders : ~Stored(k)

====
